---- MODULE Spec2Model ----
(***************************************************************************)
(* State-machine model of the boss encounter of src/utils/gameLogic.ts:    *)
(* shouldSpawnBoss, initBossCore and updateBossCore.                       *)
(*                                                                         *)
(* Units.  Scores are kept in hundredths of a point (1.33 is 133), angles  *)
(* in twentieths of a degree (a full turn is 7200), times in frames.  With *)
(* these units every rate of the code is an integer: 0.4, 0.5 and 0.6      *)
(* degrees per frame are 8, 10 and 12 units.                               *)
(*                                                                         *)
(* Geometry.  Stored end points are the Cartesian points the code stores.  *)
(* The rotation about the boss centre and the disc-against-segment test    *)
(* are carried out on a polar grid around the centre: a point is a ring    *)
(* radius (its Chebyshev distance from the centre) and one of 16           *)
(* directions of 22.5 degrees; rotating by an angle adds the angle,        *)
(* rounded to a direction, to the direction of the point.                  *)
(***************************************************************************)
EXTENDS Integers, Sequences, FiniteSets, TLC

VARIABLES
    score,          \* GameState.score, in hundredths
    canvas,         \* <<canvasWidth, canvasHeight>> of the play field
    bossCore,       \* GameState.bossCore: <<>> is null, <<b>> is the Boss Core b
    bossDefeated,   \* updateBossCore's result field of the last tick
    collision,      \* updateBossCore's result field of the last tick
    tick,           \* what the last updateBossCore call did (observation)
    spawnDue,       \* shouldSpawnBoss's result in the last score tick (observation)
    spawns,         \* number of initBossCore calls so far
    scoreTicks,     \* number of score ticks so far
    ticks,          \* number of updateBossCore calls on the current Boss Core
    input,          \* the inputs of the last updateBossCore call, where followed
    gameState,      \* the GameState of initGameState: <<>> before the call, <<g>> after
    storage,        \* the item netrunner_achievements of localStorage
    ACHIEVEMENTS,   \* the unlocked fields of the default achievement objects
    lastCall,       \* the inputs and the outcome of the last updateAchievements call
    gameActive,         \* Index: the state gameActive
    attemptsLeft,       \* Index: the state attemptsLeft
    dailyAttemptsLeft,  \* Index: the state dailyAttemptsLeft
    hasUnlimitedMode,   \* Index: the state hasUnlimitedMode
    startCall,          \* the last handleStartGame call and what useAttempt answered
    rotation,           \* both angles as the doubles of lines 161-169, where followed
    leaderboard         \* the component Leaderboard: its prop, its state, its timer

vars == <<score, canvas, bossCore, bossDefeated, collision, tick, spawnDue, spawns,
          scoreTicks, ticks, input, gameState, storage, ACHIEVEMENTS, lastCall,
          gameActive, attemptsLeft, dailyAttemptsLeft, hasUnlimitedMode, startCall,
          rotation, leaderboard>>

\* The state of the page Index that the start of a game reads and writes.
lobby == <<gameActive, attemptsLeft, dailyAttemptsLeft, hasUnlimitedMode, startCall>>

\* The state of the application around the encounter.
app == <<gameState, storage, ACHIEVEMENTS, lastCall, lobby, rotation, leaderboard>>

\* The variables that the encounter itself does not touch.
aux == <<input, app>>

-----------------------------------------------------------------------------
(* Units and arithmetic *)

Pts(p) == p * 100

FullTurn == 360 * 20

NumDirs == 4 * 4

\* JavaScript's remainder: the result has the sign of the dividend.
JsRem(a, m) == IF a >= 0 THEN a % m ELSE -((-a) % m)

Min(a, b) == IF a <= b THEN a ELSE b

Abs(a) == IF a >= 0 THEN a ELSE -a

-----------------------------------------------------------------------------
(* shouldSpawnBoss *)

bossThresholds == <<Pts(33000), Pts(66000), Pts(99000)>>

LookBack == 133

Null == <<>>

BossActive(currentBoss) == currentBoss # Null /\ currentBoss[1].active

\* The loop without the (!currentBoss || !currentBoss.active) condition of
\* line 46.
shouldSpawnBossAnyBoss(s, currentBoss) ==
    \E i \in 1..Len(bossThresholds) :
        LET threshold == bossThresholds[i]
            previousScore == s - LookBack
        IN  /\ previousScore < threshold
            /\ s >= threshold

shouldSpawnBoss(s, currentBoss) ==
    \E i \in 1..Len(bossThresholds) :
        LET threshold == bossThresholds[i]
            previousScore == s - LookBack
        IN  /\ previousScore < threshold
            /\ s >= threshold
            /\ ~BossActive(currentBoss)

-----------------------------------------------------------------------------
(* initBossCore *)

\* Lines 58-60 with > for >=.
BossLevelStrict(s) ==
    IF s > Pts(99000) THEN 3
    ELSE IF s > Pts(66000) THEN 2
    ELSE 1

BossLevel(s) ==
    IF s >= Pts(99000) THEN 3
    ELSE IF s >= Pts(66000) THEN 2
    ELSE 1

\* The four sides of a square of the given size around (x, y): top, right,
\* bottom, left, each from its first corner to its second.
SquareSides(x, y, halfSize) ==
    << << <<x - halfSize, y - halfSize>>, <<x + halfSize, y - halfSize>> >>,
       << <<x + halfSize, y - halfSize>>, <<x + halfSize, y + halfSize>> >>,
       << <<x + halfSize, y + halfSize>>, <<x - halfSize, y + halfSize>> >>,
       << <<x - halfSize, y + halfSize>>, <<x - halfSize, y - halfSize>> >> >>

MidPoint(points) ==
    << (points[1][1] + points[2][1]) \div 2, (points[1][2] + points[2][2]) \div 2 >>

\* The second square of a ring built a quarter turn on: its side idx has the
\* end points of side idx + 1 of the first square.
createSquareLinesTurned(x, y, size, baseId) ==
    LET halfSize == size \div 2
        sides == SquareSides(x, y, halfSize)
        turn == IF baseId \in { "outer2", "inner2" } THEN 1 ELSE 0
    IN  [ k \in 1..8 |->
            LET idx == (k - 1) \div 2
                points == sides[((idx + turn) % 4) + 1]
                midPoint == MidPoint(points)
            IN  IF k % 2 = 1
                THEN [ id |-> <<baseId, idx, 1>>,
                       points |-> <<points[1], midPoint>>,
                       isVulnerable |-> FALSE,
                       destroyed |-> FALSE ]
                ELSE [ id |-> <<baseId, idx, 2>>,
                       points |-> <<midPoint, points[2]>>,
                       isVulnerable |-> FALSE,
                       destroyed |-> FALSE ] ]

\* Line 2*idx+1 is the first half of side idx, line 2*idx+2 its second half.
createSquareLines(x, y, size, baseId) ==
    LET halfSize == size \div 2
        sides == SquareSides(x, y, halfSize)
    IN  [ k \in 1..8 |->
            LET idx == (k - 1) \div 2
                points == sides[idx + 1]
                midPoint == MidPoint(points)
            IN  IF k % 2 = 1
                THEN [ id |-> <<baseId, idx, 1>>,
                       points |-> <<points[1], midPoint>>,
                       isVulnerable |-> FALSE,
                       destroyed |-> FALSE ]
                ELSE [ id |-> <<baseId, idx, 2>>,
                       points |-> <<midPoint, points[2]>>,
                       isVulnerable |-> FALSE,
                       destroyed |-> FALSE ] ]

MemoryCardSize == 30

initBossCore(s, canvasWidth, canvasHeight) ==
    LET level == BossLevel(s)
        x == canvasWidth \div 2
        y == canvasHeight \div 3
        maxSize == (Min(canvasWidth, canvasHeight) * 4) \div 10
        outerSquareSize == maxSize
        innerSquareSize == maxSize \div 2
    IN  [ active |-> TRUE,
          x |-> x,
          y |-> y,
          level |-> level,
          outerSquareSize |-> outerSquareSize,
          innerSquareSize |-> innerSquareSize,
          outerRotationAngle |-> 0,
          innerRotationAngle |-> 0,
          outerLines |-> createSquareLines(x, y, outerSquareSize, "outer1")
                         \o createSquareLines(x, y, outerSquareSize, "outer2"),
          innerLines |-> createSquareLines(x, y, innerSquareSize, "inner1")
                         \o createSquareLines(x, y, innerSquareSize, "inner2"),
          memoryCard |-> [ x |-> x, y |-> y, size |-> MemoryCardSize,
                           type |-> "MEMORY_CARD", active |-> TRUE ],
          vulnerableLinesTimer |-> 0,
          cooldownTimer |-> 0 ]

-----------------------------------------------------------------------------
(* Polar grid: the rotation of lines 214-222 and the collision tests *)

\* Direction (0..15, steps of 22.5 degrees, increasing with the rotation
\* angle) of the offset (dx, dy) of a corner or side mid point of a square.
Dir(dx, dy) ==
    CASE dx > 0 /\ dy = 0   -> 0
      [] dx > 0 /\ dy = dx  -> 2
      [] dx = 0 /\ dy > 0   -> 4
      [] dx < 0 /\ dy = -dx -> 6
      [] dx < 0 /\ dy = 0   -> 8
      [] dx < 0 /\ dy = dx  -> 10
      [] dx = 0 /\ dy < 0   -> 12
      [] dx > 0 /\ dy = -dx -> 14
      [] OTHER              -> 0

\* The angle as a number of directions, rounded to the nearest; cos and sin
\* have period 360, so a negative angle counts from the other side.
AngleDirs(rotationAngle) ==
    (((rotationAngle % FullTurn) * 2 + (FullTurn \div NumDirs)) \div (2 * (FullTurn \div NumDirs))) % NumDirs

\* One end point rotated about the boss centre (lines 214-222).
TransformPoint(point, cx, cy, rotationAngle) ==
    LET dx == point[1] - cx
        dy == point[2] - cy
    IN  [ rad |-> IF Abs(dx) >= Abs(dy) THEN Abs(dx) ELSE Abs(dy),
          dir |-> (Dir(dx, dy) + AngleDirs(rotationAngle)) % NumDirs ]

\* The disc of the player touches the segment from points[1] to points[2].
SegmentHit(player, points) ==
    /\ player.rad = points[1].rad
    /\ player.rad = points[2].rad
    /\ (player.dir - points[1].dir) % NumDirs <= (points[2].dir - points[1].dir) % NumDirs

checkBossLineCollision(player, tempLine) ==
    [ collision |-> SegmentHit(player, tempLine.points),
      isLethal  |-> ~tempLine.isVulnerable ]

\* The memory card lies at the boss centre.
checkMemoryCardCollision(player, memoryCard) == player.rad = 0

-----------------------------------------------------------------------------
(* updateBossCore *)

RotationSeconds(level) ==
    IF level = 1 THEN 15 ELSE IF level = 2 THEN 12 ELSE IF level = 3 THEN 10 ELSE 15

outerRotationSpeed(level) == (FullTurn \div RotationSeconds(level)) \div 60

innerRotationSpeed(level) == -((3 * outerRotationSpeed(level)) \div 2)

\* Lines 164-169: advance both angles, then keep them "within 0-360" with %.
WrapAngle(a) == JsRem(a, FullTurn)

RotateBoss(b, deltaTime) ==
    [ b EXCEPT
        !.outerRotationAngle = WrapAngle(@ + outerRotationSpeed(b.level) * deltaTime),
        !.innerRotationAngle = WrapAngle(@ + innerRotationSpeed(b.level) * deltaTime) ]

VulnerableInterval == 300

CooldownFrames == 180

MaxVulnerable == 4

\* Lines 178-180.
ResetVulnerability(lines) ==
    [ i \in DOMAIN lines |-> [ lines[i] EXCEPT !.isVulnerable = FALSE ] ]

NotDestroyed(line) == ~line.destroyed

\* The pool without the !line.destroyed filters of lines 184-185.
allLinesUnfiltered(b) == b.outerLines \o b.innerLines

\* Lines 183-186: the pool of the round.
allLines(b) == SelectSeq(b.outerLines, NotDestroyed) \o SelectSeq(b.innerLines, NotDestroyed)

\* findIndex: the first index whose line has the id, 0 for -1.
findIndex(lines, id) ==
    IF \E i \in DOMAIN lines : lines[i].id = id
    THEN CHOOSE i \in DOMAIN lines :
            /\ lines[i].id = id
            /\ \A j \in DOMAIN lines : lines[j].id = id => i <= j
    ELSE 0

\* Lines 193-203: one iteration of the marking loop.
MarkVulnerable(b, lineIndex) ==
    LET outerLineIndex == findIndex(b.outerLines, lineIndex)
        innerLineIndex == findIndex(b.innerLines, lineIndex)
    IN  IF outerLineIndex > 0
        THEN [ b EXCEPT !.outerLines[outerLineIndex].isVulnerable = TRUE ]
        ELSE IF innerLineIndex > 0
             THEN [ b EXCEPT !.innerLines[innerLineIndex].isVulnerable = TRUE ]
             ELSE b

RECURSIVE MarkLoop(_, _, _, _)
MarkLoop(b, shuffledLines, i, linesToMakeVulnerable) ==
    IF i > linesToMakeVulnerable THEN b
    ELSE MarkLoop(MarkVulnerable(b, shuffledLines[i].id), shuffledLines, i + 1,
                  linesToMakeVulnerable)

\* Line 190: sort with a random comparator yields some permutation of the
\* pool.  The outcome is given as an order of all line ids; the shuffled
\* pool is the pool put in that order.
Shuffle(pool, order) ==
    LET present == { pool[j].id : j \in DOMAIN pool }
        ids == SelectSeq(order, LAMBDA id : id \in present)
    IN  [ i \in 1..Len(ids) |-> pool[CHOOSE j \in DOMAIN pool : pool[j].id = ids[i]] ]

LinesToMakeVulnerable(pool) == Min(MaxVulnerable, Len(pool))

\* The refresh round without the assignment of line 175.
RefreshRoundKeepsTimer(b, order) ==
    LET cleared == [ b EXCEPT !.outerLines = ResetVulnerability(@),
                              !.innerLines = ResetVulnerability(@) ]
        pool == allLines(cleared)
        shuffledLines == Shuffle(pool, order)
    IN  MarkLoop(cleared, shuffledLines, 1, LinesToMakeVulnerable(pool))

\* Lines 175-204: one refresh round.
RefreshRound(b, order) ==
    LET cleared == [ b EXCEPT !.vulnerableLinesTimer = VulnerableInterval,
                              !.outerLines = ResetVulnerability(@),
                              !.innerLines = ResetVulnerability(@) ]
        pool == allLines(cleared)
        shuffledLines == Shuffle(pool, order)
    IN  MarkLoop(cleared, shuffledLines, 1, LinesToMakeVulnerable(pool))

\* The test of line 173 with < in the place of <=.
TimerExpiredStrict(b, deltaTime) == b.vulnerableLinesTimer - deltaTime < 0

TimerExpired(b, deltaTime) == b.vulnerableLinesTimer - deltaTime <= 0

\* The refresh round run in every tick, without the test of the timer on
\* line 175.
UpdateVulnerabilityEveryTick(b, deltaTime, order) == RefreshRound(b, order)

\* Lines 172-205.
UpdateVulnerability(b, deltaTime, order) ==
    IF TimerExpired(b, deltaTime)
    THEN RefreshRound(b, order)
    ELSE [ b EXCEPT !.vulnerableLinesTimer = @ - deltaTime ]

\* The loop body without the !line.destroyed guard of line 212.
LineOutcomeUnguarded(line, rotationAngle, b, player) ==
    LET transformedPoints ==
            << TransformPoint(line.points[1], b.x, b.y, rotationAngle),
               TransformPoint(line.points[2], b.x, b.y, rotationAngle) >>
        tempLine == [ line EXCEPT !.points = transformedPoints ]
        r == checkBossLineCollision(player, tempLine)
    IN  IF r.collision
        THEN IF r.isLethal THEN "lethal" ELSE "destroy"
        ELSE "miss"

\* The loop body with the branches of lines 232-236 exchanged.
LineOutcomeExchanged(line, rotationAngle, b, player) ==
    IF line.destroyed THEN "skipped"
    ELSE LET transformedPoints ==
                 << TransformPoint(line.points[1], b.x, b.y, rotationAngle),
                    TransformPoint(line.points[2], b.x, b.y, rotationAngle) >>
             tempLine == [ line EXCEPT !.points = transformedPoints ]
             r == checkBossLineCollision(player, tempLine)
         IN  IF r.collision
             THEN IF r.isLethal THEN "destroy" ELSE "lethal"
             ELSE "miss"

\* Lines 211-237 for one line: "skipped", "miss", "lethal" or "destroy".
LineOutcome(line, rotationAngle, b, player) ==
    IF line.destroyed THEN "skipped"
    ELSE LET transformedPoints ==
                 << TransformPoint(line.points[1], b.x, b.y, rotationAngle),
                    TransformPoint(line.points[2], b.x, b.y, rotationAngle) >>
             tempLine == [ line EXCEPT !.points = transformedPoints ]
             r == checkBossLineCollision(player, tempLine)
         IN  IF r.collision
             THEN IF r.isLethal THEN "lethal" ELSE "destroy"
             ELSE "miss"

\* The for loop of lines 210-239: the outcome of every line, in order.
RECURSIVE LineOutcomes(_, _, _, _, _)
LineOutcomes(lines, i, rotationAngle, b, player) ==
    IF i > Len(lines) THEN << >>
    ELSE << LineOutcome(lines[i], rotationAngle, b, player) >>
         \o LineOutcomes(lines, i + 1, rotationAngle, b, player)

\* The loop writing the flag of every line it visits, destroyed = (the line
\* was hit while vulnerable), instead of only setting it as line 234 does.
checkLineCollisionsOverwrite(lines, rotationAngle, b, player) ==
    LET outcome == LineOutcomes(lines, 1, rotationAngle, b, player)
    IN  [ lines |-> [ i \in DOMAIN lines |->
                        [ lines[i] EXCEPT !.destroyed = (outcome[i] = "destroy") ] ],
          collision |-> \E i \in DOMAIN lines : outcome[i] = "lethal",
          tested |-> { lines[i].id : i \in { j \in DOMAIN lines : outcome[j] # "skipped" } },
          lethal |-> { lines[i].id : i \in { j \in DOMAIN lines : outcome[j] = "lethal" } } ]

\* The loop setting collision for every line collision, before the test of
\* isLethal on line 232, not only for the lethal ones.
checkLineCollisionsAnyHit(lines, rotationAngle, b, player) ==
    LET outcome == LineOutcomes(lines, 1, rotationAngle, b, player)
    IN  [ lines |-> [ i \in DOMAIN lines |->
                        IF outcome[i] = "destroy"
                        THEN [ lines[i] EXCEPT !.destroyed = TRUE ]
                        ELSE lines[i] ],
          collision |-> \E i \in DOMAIN lines : outcome[i] \in { "lethal", "destroy" },
          tested |-> { lines[i].id : i \in { j \in DOMAIN lines : outcome[j] # "skipped" } },
          lethal |-> { lines[i].id : i \in { j \in DOMAIN lines : outcome[j] = "lethal" } } ]

\* The loop destroying every line it finds hit, the lethal ones as well:
\* line 235 outside the else of line 234.
checkLineCollisionsDestroyHit(lines, rotationAngle, b, player) ==
    LET outcome == LineOutcomes(lines, 1, rotationAngle, b, player)
    IN  [ lines |-> [ i \in DOMAIN lines |->
                        IF outcome[i] \in { "lethal", "destroy" }
                        THEN [ lines[i] EXCEPT !.destroyed = TRUE ]
                        ELSE lines[i] ],
          collision |-> \E i \in DOMAIN lines : outcome[i] = "lethal",
          tested |-> { lines[i].id : i \in { j \in DOMAIN lines : outcome[j] # "skipped" } },
          lethal |-> { lines[i].id : i \in { j \in DOMAIN lines : outcome[j] = "lethal" } } ]

\* The loop storing turned end points in every line it tests (here: turned
\* by a quarter turn about the centre), instead of keeping the rotated end
\* points in the temporary line of lines 225-228.
checkLineCollisionsWriteBack(lines, rotationAngle, b, player) ==
    LET outcome == LineOutcomes(lines, 1, rotationAngle, b, player)
        turned(p) == << b.x - (p[2] - b.y), b.y + (p[1] - b.x) >>
    IN  [ lines |-> [ i \in DOMAIN lines |->
                        IF outcome[i] = "skipped" THEN lines[i]
                        ELSE [ lines[i] EXCEPT
                                 !.points = << turned(@[1]), turned(@[2]) >>,
                                 !.destroyed = @ \/ outcome[i] = "destroy" ] ],
          collision |-> \E i \in DOMAIN lines : outcome[i] = "lethal",
          tested |-> { lines[i].id : i \in { j \in DOMAIN lines : outcome[j] # "skipped" } },
          lethal |-> { lines[i].id : i \in { j \in DOMAIN lines : outcome[j] = "lethal" } } ]

\* Lines 209-240: the lines after the loop, and whether it set collision.
checkLineCollisions(lines, rotationAngle, b, player) ==
    LET outcome == LineOutcomes(lines, 1, rotationAngle, b, player)
    IN  [ lines |-> [ i \in DOMAIN lines |->
                        IF outcome[i] = "destroy"
                        THEN [ lines[i] EXCEPT !.destroyed = TRUE ]
                        ELSE lines[i] ],
          collision |-> \E i \in DOMAIN lines : outcome[i] = "lethal",
          tested |-> { lines[i].id : i \in { j \in DOMAIN lines : outcome[j] # "skipped" } },
          lethal |-> { lines[i].id : i \in { j \in DOMAIN lines : outcome[j] = "lethal" } } ]

AllDestroyed(lines) == \A i \in DOMAIN lines : lines[i].destroyed

\* The test of the card without the allInnerLinesDestroyed condition of
\* lines 249-250.
MemoryCardEligibleOuterOnly(b) ==
    /\ AllDestroyed(b.outerLines)
    /\ b.memoryCard.active

\* Lines 247-251: the memory card is tested.
MemoryCardEligible(b) ==
    /\ AllDestroyed(b.outerLines)
    /\ AllDestroyed(b.innerLines)
    /\ b.memoryCard.active

\* The defeat without the write of line 255: the memory card stays active.
DefeatBossKeepsCard(b) ==
    [ b EXCEPT !.active = FALSE,
               !.cooldownTimer = CooldownFrames ]

\* Lines 253-258.
DefeatBoss(b) ==
    [ b EXCEPT !.memoryCard.active = FALSE,
               !.active = FALSE,
               !.cooldownTimer = CooldownFrames ]

\* Lines 264-266.
UpdateCooldown(b, deltaTime) ==
    IF ~b.active /\ b.cooldownTimer > 0
    THEN [ b EXCEPT !.cooldownTimer = @ - deltaTime ]
    ELSE b

\* Lines 154-205: the copy, the rotation and the vulnerability timer.
BeforeCollisions(bossCore0, deltaTime, order) ==
    UpdateVulnerability(RotateBoss(bossCore0, deltaTime), deltaTime, order)

\* The angles that lines 164-165 advanced by deltaTime, taken back: the
\* angles the Boss Core had when updateBossCore was called.
AnglesBefore(cycled, deltaTime) ==
    [ outer |-> cycled.outerRotationAngle - outerRotationSpeed(cycled.level) * deltaTime,
      inner |-> cycled.innerRotationAngle - innerRotationSpeed(cycled.level) * deltaTime ]

\* The collisions computed with the angles from before the tick, as if
\* lines 243-244 passed bossCore.outerRotationAngle and
\* bossCore.innerRotationAngle instead of the fields of updatedBoss.
AfterCollisionsStaleAngles(cycled, refreshed, deltaTime, player) ==
    LET outer == checkLineCollisions(cycled.outerLines,
                                     AnglesBefore(cycled, deltaTime).outer, cycled, player)
        inner == checkLineCollisions(cycled.innerLines,
                                     AnglesBefore(cycled, deltaTime).inner, cycled, player)
        collided == [ cycled EXCEPT !.outerLines = outer.lines,
                                    !.innerLines = inner.lines ]
        cardChecked == MemoryCardEligible(collided)
        defeated == cardChecked /\ checkMemoryCardCollision(player, collided.memoryCard)
        afterCard == IF defeated THEN DefeatBoss(collided) ELSE collided
    IN  [ updatedBoss |-> UpdateCooldown(afterCard, deltaTime),
          bossDefeated |-> defeated,
          collision |-> outer.collision \/ inner.collision,
          refreshed |-> refreshed,
          tested |-> outer.tested \cup inner.tested,
          lethal |-> outer.lethal \cup inner.lethal,
          cardChecked |-> cardChecked ]

\* The collisions with the inner ring checked only once every outer line is
\* destroyed, instead of on every call as line 244 does.
AfterCollisionsInnerGated(cycled, refreshed, deltaTime, player) ==
    LET outer == checkLineCollisions(cycled.outerLines, cycled.outerRotationAngle,
                                     cycled, player)
        inner == IF AllDestroyed(outer.lines)
                 THEN checkLineCollisions(cycled.innerLines, cycled.innerRotationAngle,
                                          cycled, player)
                 ELSE [ lines |-> cycled.innerLines, collision |-> FALSE,
                        tested |-> {}, lethal |-> {} ]
        collided == [ cycled EXCEPT !.outerLines = outer.lines,
                                    !.innerLines = inner.lines ]
        cardChecked == MemoryCardEligible(collided)
        defeated == cardChecked /\ checkMemoryCardCollision(player, collided.memoryCard)
        afterCard == IF defeated THEN DefeatBoss(collided) ELSE collided
    IN  [ updatedBoss |-> UpdateCooldown(afterCard, deltaTime),
          bossDefeated |-> defeated,
          collision |-> outer.collision \/ inner.collision,
          refreshed |-> refreshed,
          tested |-> outer.tested \cup inner.tested,
          lethal |-> outer.lethal \cup inner.lethal,
          cardChecked |-> cardChecked ]

\* Lines 207-268: the collisions, the memory card, the cooldown, the result.
\* refreshed says whether lines 173-205 ran a refresh round.
AfterCollisions(cycled, refreshed, deltaTime, player) ==
    LET outer == checkLineCollisions(cycled.outerLines, cycled.outerRotationAngle,
                                     cycled, player)
        inner == checkLineCollisions(cycled.innerLines, cycled.innerRotationAngle,
                                     cycled, player)
        collided == [ cycled EXCEPT !.outerLines = outer.lines,
                                    !.innerLines = inner.lines ]
        cardChecked == MemoryCardEligible(collided)
        defeated == cardChecked /\ checkMemoryCardCollision(player, collided.memoryCard)
        afterCard == IF defeated THEN DefeatBoss(collided) ELSE collided
    IN  [ updatedBoss |-> UpdateCooldown(afterCard, deltaTime),
          bossDefeated |-> defeated,
          collision |-> outer.collision \/ inner.collision,
          refreshed |-> refreshed,
          tested |-> outer.tested \cup inner.tested,
          lethal |-> outer.lethal \cup inner.lethal,
          cardChecked |-> cardChecked ]

updateBossCore(bossCore0, deltaTime, player, order) ==
    AfterCollisions(BeforeCollisions(bossCore0, deltaTime, order),
                    TimerExpired(bossCore0, deltaTime), deltaTime, player)

-----------------------------------------------------------------------------
(* Inputs *)

\* Play fields <<canvasWidth, canvasHeight>>.
CanvasSizes == { <<360, 600>> }

\* Scores a game starts the model at: one point below each threshold.
StartScores == { Pts(33000) - 100, Pts(66000) - 100, Pts(99000) - 100 }

\* Score gained in one tick: less than the look-back of 1.33 (two such
\* ticks end on the threshold itself), the look-back, and more than it.
ScoreIncrements == { 50, 133, 400 }

\* Number of score ticks followed in one game.
MaxScoreTicks == 2

\* Number of updateBossCore calls followed on one Boss Core.
MaxTicks == 2

\* Elapsed frames of one tick: none, a round, very many.
DeltaTimes == { 0, 300, 9000 }

\* Directions the player is placed at on a ring.
PlayerDirs == { 12 }

Centre == [ rad |-> 0, dir |-> 0 ]

\* The player relative to the boss centre: on the card, far away, on a ring.
OnRing(size, d) == [ rad |-> size \div 2, dir |-> d ]

PlayerPositions(b, dirs) ==
    { Centre, [ rad |-> b.outerSquareSize * 2, dir |-> 0 ] }
    \cup { OnRing(size, d) : size \in { b.outerSquareSize, b.innerSquareSize },
                             d \in dirs }

BaseIds == << "outer1", "outer2", "inner1", "inner2" >>

\* All line ids in the order of the pool: outer1, outer2, inner1, inner2.
PoolOrder ==
    [ n \in 1..32 |->
        << BaseIds[((n - 1) \div 8) + 1], ((n - 1) % 8) \div 2, ((n - 1) % 2) + 1 >> ]

\* All line ids with the two lines of one place (one of each square of the
\* ring) side by side: ring, side, half, square.
TwinOrder ==
    [ n \in 1..32 |->
        << BaseIds[2 * ((n - 1) \div 16) + ((n - 1) % 2) + 1],
           ((n - 1) % 16) \div 4, (((n - 1) % 4) \div 2) + 1 >> ]

\* Outcomes of the random sort that the model follows.
ShuffleOrders == { PoolOrder, TwinOrder }

\* The outcome that puts the inner ring first: TwinOrder from its second half.
InnerFirstOrder == [ n \in 1..32 |-> TwinOrder[((n + 15) % 32) + 1] ]

-----------------------------------------------------------------------------
(* The state machine *)

NoTick == [ refreshed |-> FALSE, tested |-> {}, lethal |-> {}, cardChecked |-> FALSE ]

NoInput == [ calls |-> 0, deltaTime |-> 0, player |-> Centre ]

\* Nothing has happened outside the encounter.
\* localStorage without the item netrunner_achievements.
NoItem == [ kind |-> "absent", ids |-> {}, unlocked |-> {} ]

\* The ids of the achievements, in the order of the array ACHIEVEMENTS
\* (achievementsUtils.ts, lines 7-100).
AchievementIds ==
    << "first_run", "reach_10percent", "reach_25percent", "reach_50percent",
       "reach_75percent", "reach_100percent", "collect_key", "collect_backdoor",
       "play_3_times", "play_10_times", "defeat_first_core", "defeat_level2_core",
       "defeat_level3_core" >>

AllIds == { AchievementIds[i] : i \in DOMAIN AchievementIds }

\* The array as the module defines it: every unlocked is false.
AllLocked == [ id \in AllIds |-> FALSE ]

NoState == [ score |-> 0, collectedSafetyKeys |-> 0, collectedBackdoors |-> 0,
             bossDefeatsCount |-> 0, highestBossLevelDefeated |-> 0, gamesPlayed |-> 0 ]

NoCall == [ calls |-> 0, state |-> NoState, readOk |-> TRUE, writeOk |-> TRUE,
            aborted |-> FALSE, wrote |-> FALSE ]

\* What useAttempt answers; NoResult stands for a call that did not happen.
NoResult == [ success |-> FALSE, remainingAttempts |-> 0 ]

NoStart == [ starts |-> 0, called |-> FALSE, result |-> NoResult ]

\* Index.tsx, lines 42-52: the states as useState creates them.
LobbyIdle ==
    /\ gameActive = FALSE
    /\ attemptsLeft = 3
    /\ dailyAttemptsLeft = 3
    /\ hasUnlimitedMode = FALSE
    /\ startCall = NoStart

NoRotation == << >>

\* The component Leaderboard as mounted by Index: hidden, nothing rendered,
\* no timer set, no scores read. timer is the state the pending timeout
\* will set.
NoLeaderboard ==
    [ isVisible |-> FALSE, animationState |-> "exited", timer |-> "none",
      scores |-> << >> ]

AuxIdle ==
    /\ input = NoInput
    /\ rotation = NoRotation
    /\ leaderboard = NoLeaderboard
    /\ gameState = Null
    /\ storage = NoItem
    /\ ACHIEVEMENTS = AllLocked
    /\ lastCall = NoCall
    /\ LobbyIdle

Init ==
    /\ score \in StartScores
    /\ canvas \in CanvasSizes
    /\ bossCore = Null
    /\ bossDefeated = FALSE
    /\ collision = FALSE
    /\ tick = NoTick
    /\ spawnDue = FALSE
    /\ spawns = 0
    /\ scoreTicks = 0
    /\ ticks = 0
    /\ AuxIdle

\* One tick of the orchestrator as far as the score and the spawn trigger
\* go: the score grows, then shouldSpawnBoss decides on initBossCore.
ScoreTick ==
    /\ scoreTicks < MaxScoreTicks
    /\ \E inc \in ScoreIncrements :
        /\ score' = score + inc
        /\ spawnDue' = shouldSpawnBoss(score + inc, bossCore)
        /\ IF shouldSpawnBoss(score + inc, bossCore)
           THEN /\ bossCore' = << initBossCore(score + inc, canvas[1], canvas[2]) >>
                /\ spawns' = spawns + 1
                /\ ticks' = 0
           ELSE UNCHANGED <<bossCore, spawns, ticks>>
    /\ scoreTicks' = scoreTicks + 1
    /\ UNCHANGED <<canvas, bossDefeated, collision, tick>>
    /\ UNCHANGED aux

\* One call of updateBossCore on the current Boss Core.
UpdateBossCoreWith(orders, deltaTimes, dirs) ==
    /\ bossCore # Null
    /\ \E order \in orders, deltaTime \in deltaTimes :
       \E cycled \in { BeforeCollisions(bossCore[1], deltaTime, order) } :
       \E player \in PlayerPositions(bossCore[1], dirs) :
       \E r \in { AfterCollisions(cycled, TimerExpired(bossCore[1], deltaTime),
                                  deltaTime, player) } :
          /\ bossCore' = << r.updatedBoss >>
          /\ bossDefeated' = r.bossDefeated
          /\ collision' = r.collision
          /\ tick' = [ refreshed |-> r.refreshed, tested |-> r.tested,
                       lethal |-> r.lethal, cardChecked |-> r.cardChecked ]
    /\ ticks' = ticks + 1
    /\ UNCHANGED <<score, canvas, spawnDue, spawns, scoreTicks>>
    /\ UNCHANGED aux

BossTick ==
    /\ ticks < MaxTicks
    /\ UpdateBossCoreWith(ShuffleOrders, DeltaTimes, PlayerDirs)

Next == ScoreTick \/ BossTick

Spec == Init /\ [][Next]_vars

-----------------------------------------------------------------------------
(* The end of an encounter *)

\* A level-1 encounter played from the spawn: six ticks of one round each,
\* in which the round marks the four lines of one side of a ring (both
\* halves, both squares) and the player stands on the mid point of that
\* side, where it has turned to: the four sides of the outer ring, then the
\* first two sides of the inner ring.
Script ==
    << [ deltaTime |-> 300, ring |-> "outer", dir |-> 1 ],
       [ deltaTime |-> 300, ring |-> "outer", dir |-> 11 ],
       [ deltaTime |-> 300, ring |-> "outer", dir |-> 4 ],
       [ deltaTime |-> 300, ring |-> "outer", dir |-> 13 ],
       [ deltaTime |-> 300, ring |-> "inner", dir |-> 4 ],
       [ deltaTime |-> 300, ring |-> "inner", dir |-> 0 ] >>

ScriptScore == Pts(33000) - 100 + 133

ScriptPlayer(b, step) ==
    OnRing(IF step.ring = "outer" THEN b.outerSquareSize ELSE b.innerSquareSize, step.dir)

\* The result of the n-th call of updateBossCore of the script; the script
\* calls it while the boss is active.
RECURSIVE Replay(_, _)
Replay(cv, n) ==
    LET b == IF n = 1 THEN initBossCore(ScriptScore, cv[1], cv[2])
             ELSE Replay(cv, n - 1).updatedBoss
    IN  IF b.active
        THEN updateBossCore(b, Script[n].deltaTime, ScriptPlayer(b, Script[n]), TwinOrder)
        ELSE [ updatedBoss |-> b, bossDefeated |-> FALSE, collision |-> FALSE,
               refreshed |-> FALSE, tested |-> {}, lethal |-> {}, cardChecked |-> FALSE ]

\* Number of updateBossCore calls followed after the script.
EndgameTicks == 4

EndgameDeltaTimes == { 0, 300 }

EndgameDirs == { 8, 12, 14 }

InitEndgame ==
    /\ score = ScriptScore
    /\ canvas \in CanvasSizes
    /\ \E r \in { Replay(canvas, Len(Script)) } :
        /\ bossCore = << r.updatedBoss >>
        /\ bossDefeated = r.bossDefeated
        /\ collision = r.collision
        /\ tick = [ refreshed |-> r.refreshed, tested |-> r.tested,
                    lethal |-> r.lethal, cardChecked |-> r.cardChecked ]
    /\ spawnDue = TRUE
    /\ spawns = 1
    /\ scoreTicks = 1
    /\ ticks = Len(Script)
    /\ AuxIdle

EndgameTick ==
    /\ ticks < Len(Script) + EndgameTicks
    /\ UpdateBossCoreWith(ShuffleOrders, EndgameDeltaTimes, EndgameDirs)

NextEndgame == EndgameTick

SpecEndgame == InitEndgame /\ [][NextEndgame]_vars

-----------------------------------------------------------------------------
(* Observers *)

\* The Boss Core of the state, when there is one.
Boss == bossCore[1]

\* Both rings of a Boss Core as one sequence of lines.
Ring(b) == b.outerLines \o b.innerLines

LineIds(b) == { Ring(b)[i].id : i \in DOMAIN Ring(b) }

DestroyedIds(b) ==
    { Ring(b)[i].id : i \in { j \in DOMAIN Ring(b) : Ring(b)[j].destroyed } }

VulnerableIds(b) ==
    { Ring(b)[i].id : i \in { j \in DOMAIN Ring(b) : Ring(b)[j].isVulnerable } }

\* A step that is one call of updateBossCore on the Boss Core of the state.
UpdateStep == bossCore # Null /\ bossCore' # Null /\ ticks' = ticks + 1

\* Some threshold lies in the window shouldSpawnBoss looks at for score s.
InSpawnWindow(s) ==
    \E i \in 1..Len(bossThresholds) :
        s - LookBack < bossThresholds[i] /\ s >= bossThresholds[i]

\* Some threshold T has prev < T <= cur.
Crosses(prev, cur) ==
    \E i \in 1..Len(bossThresholds) :
        prev < bossThresholds[i] /\ bossThresholds[i] <= cur

-----------------------------------------------------------------------------
(* Claims *)

\* C1: after every updateBossCore tick, for any non-negative deltaTime and
\* starting angles in [0,360), both outerRotationAngle and
\* innerRotationAngle are in [0,360).  The inner speed is negative and line
\* 169 takes the remainder with %, which keeps the sign of the angle: after
\* a tick of 300 frames from the spawn the inner angle is -180.
AnglesInRange ==
    bossCore # Null =>
        /\ Boss.outerRotationAngle >= 0 /\ Boss.outerRotationAngle < FullTurn
        /\ Boss.innerRotationAngle >= 0 /\ Boss.innerRotationAngle < FullTurn

\* C2: destruction is one-way: over the updateBossCore ticks on one Boss
\* Core, a line that is destroyed in a state is destroyed in the next one,
\* hence in every later one.
DestroyedStaysDestroyed ==
    [][ (bossCore # Null /\ bossCore' # Null /\ spawns' = spawns)
            => DestroyedIds(Boss) \subseteq DestroyedIds(bossCore'[1]) ]_vars

\* A second tick that passed over lines destroyed before it: they are
\* still destroyed after it.
DestroyedSurvivesTick ==
    /\ bossCore # Null
    /\ ticks = 2
    /\ tick.tested # {}
    /\ tick.tested # LineIds(Boss)
    /\ LineIds(Boss) \ tick.tested \subseteq DestroyedIds(Boss)

\* C3: a line destroyed before a tick is not collision-tested in it, so it
\* raises no lethal collision wherever the player is, and right after a
\* refresh round of the tick it is not vulnerable.
DestroyedLinesInert ==
    [][ UpdateStep =>
            /\ tick'.tested \cap DestroyedIds(Boss) = {}
            /\ tick'.lethal \cap DestroyedIds(Boss) = {}
            /\ tick'.refreshed => VulnerableIds(bossCore'[1]) \cap DestroyedIds(Boss) = {}
      ]_vars

\* A tick with a refresh round and a lethal collision, on a Boss Core most
\* of whose lines were destroyed before it.
RefreshAmongDestroyed ==
    /\ bossCore # Null
    /\ tick.refreshed
    /\ tick.lethal # {}
    /\ Cardinality(tick.tested) <= 8
    /\ Cardinality(DestroyedIds(Boss)) >= 24

\* C4: a refresh round clears every flag and then marks exactly min(4, n)
\* distinct lines, n the number of lines not destroyed before it in both
\* rings together; every marked line was not destroyed, and for n < 4 all
\* n are marked.
RefreshMarksMinFourN ==
    [][ (UpdateStep /\ tick'.refreshed) =>
            LET intact == LineIds(Boss) \ DestroyedIds(Boss)
                marked == VulnerableIds(bossCore'[1])
            IN  /\ Cardinality(marked) = Min(MaxVulnerable, Cardinality(intact))
                /\ marked \subseteq intact
                /\ Cardinality(intact) < MaxVulnerable => marked = intact
      ]_vars

\* A refresh round over fewer than four lines: the lines it marked are the
\* lines the tick tested.
RefreshOverFewLines ==
    /\ bossCore # Null
    /\ tick.refreshed
    /\ tick.tested # {}
    /\ Cardinality(tick.tested) < MaxVulnerable
    /\ VulnerableIds(Boss) = tick.tested

\* C5: the memory card is tested in a tick only if every outer and every
\* inner line is destroyed and the card is active at that point; with an
\* inner line intact there is no test and bossDefeated is false.
CardTestedOnlyWhenExposed ==
    /\ (bossCore # Null /\ tick.cardChecked) =>
            /\ AllDestroyed(Boss.outerLines)
            /\ AllDestroyed(Boss.innerLines)
            /\ Boss.memoryCard.active \/ bossDefeated
    /\ bossDefeated => tick.cardChecked
    /\ (bossCore # Null /\ ~AllDestroyed(Boss.innerLines)) =>
            ~tick.cardChecked /\ ~bossDefeated

\* The card was tested and the player was not on it.
CardTestedAndMissed ==
    /\ bossCore # Null
    /\ tick.cardChecked
    /\ ~bossDefeated
    /\ Boss.active

\* Scores around every threshold.
ProbeScores ==
    { bossThresholds[i] + d : i \in 1..Len(bossThresholds),
                              d \in { -1, 0, 1, LookBack - 1, LookBack } }

\* C6: for a tick that moves the score from prev to cur by any increment, a
\* spawn is triggered if and only if no boss is active and some threshold T
\* has prev < T <= cur.  shouldSpawnBoss takes cur - 1.33 for prev: from
\* 32 999.00 to 33 003.00 it compares 33 001.67 with the threshold and
\* triggers nothing.
SpawnIffCrossing ==
    \A inc \in ScoreIncrements :
        shouldSpawnBoss(score + inc, bossCore)
            <=> (~BossActive(bossCore) /\ Crosses(score, score + inc))

\* C7: shouldSpawnBoss reports no spawn while the Boss Core exists with
\* active = true, for any score, the scores that cross a threshold
\* included.
NoSpawnWhileActive ==
    BossActive(bossCore) =>
        \A s \in ProbeScores \cup { score } \cup { score + inc : inc \in ScoreIncrements } :
            ~shouldSpawnBoss(s, bossCore)

\* The last score tick ended in the window of a threshold with the Boss
\* Core active, and shouldSpawnBoss said no; without a Boss Core it says
\* yes for that score.
BlockedByActiveBoss ==
    /\ BossActive(bossCore)
    /\ scoreTicks > 1
    /\ InSpawnWindow(score)
    /\ ~spawnDue
    /\ shouldSpawnBoss(score, Null)

\* C8: the level of a spawned boss depends on the spawning score only:
\* 3 from 99 000, else 2 from 66 000, else 1; it is always in {1, 2, 3}.
SpawnLevelByBand ==
    [][ spawns' = spawns + 1 =>
            /\ bossCore'[1].level \in { 1, 2, 3 }
            /\ score' >= Pts(99000) => bossCore'[1].level = 3
            /\ (score' < Pts(99000) /\ score' >= Pts(66000)) => bossCore'[1].level = 2
            /\ score' < Pts(66000) => bossCore'[1].level = 1
            /\ \A cv \in { <<320, 480>>, <<1920, 1080>> } :
                  initBossCore(score', cv[1], cv[2]).level = bossCore'[1].level
      ]_vars

\* A boss spawned at a score of exactly 66 000.
SpawnedOnSecondThreshold ==
    /\ bossCore # Null
    /\ spawnDue
    /\ ticks = 0
    /\ score = Pts(66000)
    /\ Boss.level = 2

\* C9: the tick in which the player takes the active memory card with all
\* lines destroyed returns bossDefeated = true and a Boss Core with
\* active = false, memoryCard.active = false, the level unchanged and
\* cooldownTimer exactly 180, for any deltaTime.  Lines 264-266 run in that
\* same tick and take deltaTime off the 180 just set.
DefeatStartsCooldown ==
    bossDefeated =>
        /\ ~Boss.active
        /\ ~Boss.memoryCard.active
        /\ Boss.level = BossLevel(ScriptScore)
        /\ Boss.cooldownTimer = CooldownFrames

\* C10 as stated: in a tick in which the player collides with a line that
\* is neither destroyed nor vulnerable, collision is true and no line of
\* the boss becomes destroyed.
LethalHitDestroysNothing ==
    [][ (UpdateStep /\ tick'.lethal # {}) =>
            /\ collision'
            /\ DestroyedIds(bossCore'[1]) = DestroyedIds(Boss)
      ]_vars

\* C10 amended: in such a tick collision is true and none of the lines of
\* that lethal collision becomes destroyed; the lines that become destroyed
\* in the tick are vulnerable lines the player touches as well.
LethalHitSparesLine ==
    [][ (UpdateStep /\ tick'.lethal # {}) =>
            /\ collision'
            /\ tick'.lethal \cap DestroyedIds(bossCore'[1]) = {}
            /\ DestroyedIds(bossCore'[1]) \ DestroyedIds(Boss)
                    \subseteq VulnerableIds(bossCore'[1]) \cap tick'.tested
      ]_vars

\* A first tick with a lethal collision in which a line was destroyed too.
LethalHitBesideDestroyed ==
    /\ bossCore # Null
    /\ ticks = 1
    /\ collision
    /\ tick.lethal # {}
    /\ DestroyedIds(Boss) # {}

-----------------------------------------------------------------------------
(* Single calls of updateBossCore, with their inputs kept *)

\* The Boss Core of the script two calls further: the last two sides of the
\* inner ring are destroyed as well, the memory card is exposed.
ExposedBoss(cv) ==
    LET after(bosses, dir) ==
            { IF b.active
              THEN updateBossCore(b, 300, OnRing(b.innerSquareSize, dir),
                                  TwinOrder).updatedBoss
              ELSE b : b \in bosses }
    IN  CHOOSE b \in after(after({ Replay(cv, Len(Script)).updatedBoss }, 12), 8) : TRUE

\* Number of updateBossCore calls followed.
CallTicks == 2

\* Elapsed frames of a call: none, one second, a round.
CallDeltaTimes == { 0, 60, 300 }

\* A corner and a side mid point of the squares as created.
CallDirs == { 10, 12 }

\* The Boss Cores the calls start from, each with the score and the number
\* of calls it has behind it: as spawned at level 1 and at level 3, and
\* with the memory card exposed.
CallStarts(cv) ==
    { [ score |-> ScriptScore, ticks |-> 0,
        boss |-> initBossCore(ScriptScore, cv[1], cv[2]) ],
      [ score |-> Pts(99000), ticks |-> 0,
        boss |-> initBossCore(Pts(99000), cv[1], cv[2]) ],
      [ score |-> ScriptScore, ticks |-> Len(Script) + 2,
        boss |-> ExposedBoss(cv) ] }

InitCalls ==
    /\ canvas \in CanvasSizes
    /\ \E start \in CallStarts(canvas) :
        /\ score = start.score
        /\ bossCore = << start.boss >>
        /\ ticks = start.ticks
    /\ bossDefeated = FALSE
    /\ collision = FALSE
    /\ tick = NoTick
    /\ spawnDue = TRUE
    /\ spawns = 1
    /\ scoreTicks = 1
    /\ AuxIdle

\* One call of updateBossCore with the random sort of line 190 ending in one
\* of the given orders; input keeps deltaTime and player.
CallTickWith(orders) ==
    /\ input.calls < CallTicks
    /\ bossCore # Null
    /\ \E order \in orders, deltaTime \in CallDeltaTimes :
       \E cycled \in { BeforeCollisions(bossCore[1], deltaTime, order) } :
       \E player \in PlayerPositions(bossCore[1], CallDirs) :
       \E r \in { AfterCollisions(cycled, TimerExpired(bossCore[1], deltaTime),
                                  deltaTime, player) } :
          /\ bossCore' = << r.updatedBoss >>
          /\ bossDefeated' = r.bossDefeated
          /\ collision' = r.collision
          /\ tick' = [ refreshed |-> r.refreshed, tested |-> r.tested,
                       lethal |-> r.lethal, cardChecked |-> r.cardChecked ]
          /\ input' = [ calls |-> input.calls + 1, deltaTime |-> deltaTime,
                        player |-> player ]
    /\ ticks' = ticks + 1
    /\ UNCHANGED <<score, canvas, spawnDue, spawns, scoreTicks>>
    /\ UNCHANGED app

CallTick == CallTickWith(ShuffleOrders)

NextCalls == CallTick

SpecCalls == InitCalls /\ [][NextCalls]_vars

\* The ids of the lines that the player's disc touches when they are turned
\* by rotationAngle about the centre of b.
Touched(lines, rotationAngle, b, player) ==
    { lines[i].id : i \in { j \in DOMAIN lines :
        checkBossLineCollision(player,
            [ lines[j] EXCEPT !.points =
                << TransformPoint(lines[j].points[1], b.x, b.y, rotationAngle),
                   TransformPoint(lines[j].points[2], b.x, b.y, rotationAngle) >> ]).collision } }

\* The lines of b the player touches with the rings at the given angles.
TouchedAt(b, outerAngle, innerAngle, player) ==
    Touched(b.outerLines, outerAngle, b, player)
        \cup Touched(b.innerLines, innerAngle, b, player)

\* The non-destroyed lines the player touched in the call that led to the
\* state next, given the state before it: the lines of the Boss Core that
\* were not destroyed before the call and that the player touches at the
\* angles of the Boss Core after it.
TouchedInCall ==
    TouchedAt(bossCore'[1], bossCore'[1].outerRotationAngle,
              bossCore'[1].innerRotationAngle, input'.player)
        \ DestroyedIds(Boss)

\* C11: in a tick in which every line the player's disc collides with is
\* non-destroyed and vulnerable, each of those lines becomes destroyed and
\* collision is false.
VulnerableHitsDestroy ==
    [][ (UpdateStep /\ TouchedInCall # {}
            /\ TouchedInCall \subseteq VulnerableIds(bossCore'[1]))
            => /\ TouchedInCall \subseteq DestroyedIds(bossCore'[1])
               /\ ~collision'
      ]_vars

\* The first call on a Boss Core as spawned destroyed the four lines of one
\* place, all vulnerable, without a collision.
FourVulnerableHitsDestroyed ==
    /\ bossCore # Null
    /\ ticks = 1
    /\ ~collision
    /\ tick.lethal = {}
    /\ Cardinality(DestroyedIds(Boss)) = 4
    /\ DestroyedIds(Boss) \subseteq VulnerableIds(Boss)
    /\ DestroyedIds(Boss) =
         TouchedAt(Boss, Boss.outerRotationAngle, Boss.innerRotationAngle, input.player)

\* C12: a call on a Boss Core with active = false and cooldownTimer > 0
\* takes exactly deltaTime off cooldownTimer and does nothing else: both
\* angles, the vulnerability timer and the flags of every line keep their
\* values, collision and bossDefeated are false.  updateBossCore has no
\* test of active before line 264: lines 164-205 run as in every call.
InactiveOnlyCountsDown ==
    [][ (UpdateStep /\ ~Boss.active /\ Boss.cooldownTimer > 0) =>
            /\ bossCore'[1].cooldownTimer = Boss.cooldownTimer - input'.deltaTime
            /\ bossCore'[1].outerRotationAngle = Boss.outerRotationAngle
            /\ bossCore'[1].innerRotationAngle = Boss.innerRotationAngle
            /\ bossCore'[1].vulnerableLinesTimer = Boss.vulnerableLinesTimer
            /\ bossCore'[1].outerLines = Boss.outerLines
            /\ bossCore'[1].innerLines = Boss.innerLines
            /\ ~collision'
            /\ ~bossDefeated'
      ]_vars

\* C13: a spawned Boss Core has exactly 16 outer and exactly 8 inner lines,
\* all with different ids, and the counts and the ids are the same in every
\* state reached by updateBossCore calls.  Lines 118-120 build the inner
\* ring from two squares of eight lines each, as the outer ring: it has 16
\* lines.
RingsOfSixteenAndEight ==
    bossCore # Null =>
        /\ Len(Boss.outerLines) = 16
        /\ Len(Boss.innerLines) = 8
        /\ Cardinality(LineIds(Boss)) = Len(Boss.outerLines) + Len(Boss.innerLines)
        /\ LineIds(Boss) = LineIds(initBossCore(score, canvas[1], canvas[2]))

\* What a caller of updateBossCore receives (line 268): the three fields.
Returned(r) == << r.updatedBoss, r.bossDefeated, r.collision >>

\* C15: in a tick in which the vulnerability timer does not expire
\* (vulnerableLinesTimer - deltaTime > 0) the result of updateBossCore, that
\* is the Boss Core, bossDefeated and collision, is the same whatever the
\* random source would answer: it is decided by the Boss Core, deltaTime
\* and the player alone.
NoRefreshIsDeterministic ==
    [][ (UpdateStep /\ ~TimerExpired(Boss, input'.deltaTime))
        => \A order \in ShuffleOrders :
              Returned(updateBossCore(Boss, input'.deltaTime, input'.player, order))
                = << bossCore'[1], bossDefeated', collision' >> ]_vars

\* A second call that ran no refresh round, with vulnerable lines on the
\* boss from the round of the first call, and the player on some line.
QuietTickAmongVulnerable ==
    /\ bossCore # Null
    /\ input.calls = 2
    /\ input.deltaTime = 60
    /\ ~tick.refreshed
    /\ VulnerableIds(Boss) # {}
    /\ tick.lethal # {}
    /\ Boss.vulnerableLinesTimer = VulnerableInterval - 60

\* The lines that a call acted on: the non-vulnerable ones it found hit and
\* the ones it destroyed.
ActedOn == tick'.lethal \cup (DestroyedIds(bossCore'[1]) \ DestroyedIds(Boss))

\* C16: within one tick the boss-line collisions are evaluated against the
\* segments turned by the angles as that tick advanced them (outer lines by
\* the new outer angle, inner lines by the new inner angle): the lines the
\* tick acts on are the non-destroyed lines that the player touches at the
\* new angles.
CollisionsAtAdvancedAngles ==
    [][ UpdateStep => ActedOn = TouchedInCall ]_vars

\* A call that turned the rings (deltaTime 60 is one direction for the outer
\* ring), found a lethal line at the new angles, and with the player
\* touching other lines at the angles from before the call.
HitOnlyAtAdvancedAngles ==
    /\ bossCore # Null
    /\ input.calls >= 1
    /\ input.deltaTime = 60
    /\ tick.lethal # {}
    /\ tick.lethal \subseteq TouchedAt(Boss, Boss.outerRotationAngle,
                                       Boss.innerRotationAngle, input.player)
    /\ tick.lethal \cap TouchedAt(Boss, AnglesBefore(Boss, 60).outer,
                                   AnglesBefore(Boss, 60).inner, input.player) = {}

-----------------------------------------------------------------------------
(* initGameState *)

\* Lengths of the Game State are kept in half pixels, so that the half of an
\* odd width is a whole number; gameSpeed is kept in hundredths.
HalfPx(n) == 2 * n

\* The player placed ten pixels from the bottom instead of a hundred.
initGameStateLowPlayer(canvasWidth, canvasHeight, selectedSkin) ==
    [ player |-> [ x |-> HalfPx(canvasWidth) \div 2,
                   y |-> HalfPx(canvasHeight - 10),
                   size |-> HalfPx(10),
                   speedX |-> 0,
                   speedY |-> 0,
                   invulnerable |-> FALSE,
                   invulnerableTimer |-> 0 ],
      maze |-> << >>,
      boosters |-> << >>,
      score |-> 0,
      gameSpeed |-> 267,
      attemptsLeft |-> 3,
      gameActive |-> FALSE,
      colorPhase |-> 0,
      cursorControl |-> FALSE,
      gameWon |-> FALSE,
      collectedSafetyKeys |-> 0,
      collectedBackdoors |-> 0,
      selectedSkin |-> selectedSkin,
      bossCore |-> Null ]

\* Lines 10-35.  selectedSkin is what getSelectedSkin() answers (line 33).
initGameState(canvasWidth, canvasHeight, selectedSkin) ==
    [ player |-> [ x |-> HalfPx(canvasWidth) \div 2,
                   y |-> HalfPx(canvasHeight - 100),
                   size |-> HalfPx(10),
                   speedX |-> 0,
                   speedY |-> 0,
                   invulnerable |-> FALSE,
                   invulnerableTimer |-> 0 ],
      maze |-> << >>,
      boosters |-> << >>,
      score |-> 0,
      gameSpeed |-> 267,
      attemptsLeft |-> 3,
      gameActive |-> FALSE,
      colorPhase |-> 0,
      cursorControl |-> FALSE,
      gameWon |-> FALSE,
      collectedSafetyKeys |-> 0,
      collectedBackdoors |-> 0,
      selectedSkin |-> selectedSkin,
      bossCore |-> Null ]

\* Play-field widths and heights: none, one pixel, less than the hundred
\* pixels kept below the player, odd and even sizes of phones and tablets.
CanvasWidths == { 0, 1, 320, 360, 375, 393, 414, 768 }

CanvasHeights == { 0, 50, 100, 568, 600, 667, 851, 1024 }

\* The skins getSelectedSkin may answer.
Skins == { "DEFAULT", "PURPLE" }

\* The encounter at rest: no game runs.
EncounterIdle ==
    /\ score = 0
    /\ bossCore = Null
    /\ bossDefeated = FALSE
    /\ collision = FALSE
    /\ tick = NoTick
    /\ spawnDue = FALSE
    /\ spawns = 0
    /\ scoreTicks = 0
    /\ ticks = 0

encounter == <<score, bossCore, bossDefeated, collision, tick, spawnDue, spawns,
               scoreTicks, ticks>>

InitNewGame ==
    /\ canvas \in CanvasWidths \X CanvasHeights
    /\ EncounterIdle
    /\ AuxIdle

\* The caller asks for the initial Game State of its play field.
NewGame ==
    /\ gameState = Null
    /\ \E selectedSkin \in Skins :
          gameState' = << initGameState(canvas[1], canvas[2], selectedSkin) >>
    /\ UNCHANGED <<leaderboard, rotation, canvas, input, storage, ACHIEVEMENTS, lastCall, lobby>>
    /\ UNCHANGED encounter

NextNewGame == NewGame

SpecNewGame == InitNewGame /\ [][NextNewGame]_vars

\* C17: for any play-field width and height initGameState returns a state
\* with the player at x = width/2 and y = height - 100, with zero velocity
\* and not invulnerable, empty maze and booster collections, score 0,
\* gameActive and gameWon false, no collected keys or backdoors and no Boss
\* Core.
InitialGameState ==
    gameState # Null =>
        LET g == gameState[1]
        IN  /\ 2 * g.player.x = HalfPx(canvas[1])
            /\ g.player.y + HalfPx(100) = HalfPx(canvas[2])
            /\ g.player.speedX = 0
            /\ g.player.speedY = 0
            /\ g.player.invulnerable = FALSE
            /\ g.maze = << >>
            /\ g.boosters = << >>
            /\ g.score = 0
            /\ g.gameActive = FALSE
            /\ g.gameWon = FALSE
            /\ g.collectedSafetyKeys = 0
            /\ g.collectedBackdoors = 0
            /\ g.bossCore = Null

\* The initial state of a play field of odd width and of less than a
\* hundred pixels in height: x is a half pixel, y is above the field.
NewGameOnSmallOddField ==
    /\ gameState # Null
    /\ canvas = <<375, 50>>
    /\ gameState[1].player.x = 375
    /\ gameState[1].player.y = HalfPx(-50)

-----------------------------------------------------------------------------
(* achievementsUtils.ts: loadAchievements, saveAchievements,               *)
(* isAchievementUnlocked and updateAchievements                            *)

\* The stored item is absent, a list of achievements (the ids it holds and
\* those of them it holds as unlocked) or text that JSON.parse or the map
\* of line 109 rejects.  An operation that can throw yields threw; readOk
\* and writeOk say whether localStorage answers getItem and setItem or
\* throws.

\* Line 105.
getItem(store, readOk) == [ threw |-> ~readOk, value |-> store ]

\* An element of the array that loadAchievements returns: the object of
\* ACHIEVEMENTS itself (shared) or a copy with its own unlocked.
SharedObject == [ shared |-> TRUE, unlocked |-> FALSE ]

\* The merge taking every saved achievement as locked, instead of
\* Boolean(savedAchievement.unlocked) as line 116 does.
MergeSavedAsLocked(saved) ==
    IF saved.kind = "corrupt"
    THEN [ threw |-> TRUE, achievements |-> [ id \in AllIds |-> SharedObject ] ]
    ELSE [ threw |-> FALSE,
           achievements |-> [ id \in AllIds |->
                IF id \in saved.ids
                THEN [ shared |-> FALSE, unlocked |-> FALSE ]
                ELSE SharedObject ] ]

\* Lines 106-118: parse, then merge with the defaults.  A default without a
\* saved achievement is returned as it is, the same object.
MergeSaved(saved) ==
    IF saved.kind = "corrupt"
    THEN [ threw |-> TRUE, achievements |-> [ id \in AllIds |-> SharedObject ] ]
    ELSE [ threw |-> FALSE,
           achievements |-> [ id \in AllIds |->
                IF id \in saved.ids
                THEN [ shared |-> FALSE, unlocked |-> id \in saved.unlocked ]
                ELSE SharedObject ] ]

\* Lines 104-118 without the catch of lines 119-122.
loadAchievementsUncaught(store, readOk) ==
    LET savedAchievements == getItem(store, readOk)
    IN  IF savedAchievements.threw
        THEN [ threw |-> TRUE, achievements |-> [ id \in AllIds |-> SharedObject ] ]
        ELSE MergeSaved(savedAchievements.value)

\* Lines 103-123: the catch returns [...ACHIEVEMENTS], the default objects.
loadAchievements(store, readOk) ==
    LET savedAchievements == getItem(store, readOk)
        merged == IF savedAchievements.threw
                  THEN [ threw |-> TRUE, achievements |-> [ id \in AllIds |-> SharedObject ] ]
                  ELSE MergeSaved(savedAchievements.value)
    IN  IF merged.threw
        THEN [ threw |-> FALSE, achievements |-> [ id \in AllIds |-> SharedObject ] ]
        ELSE merged

\* The unlocked field of an element of a loaded array.
UnlockedField(achievements, defaults, id) ==
    IF achievements[id].shared THEN defaults[id] ELSE achievements[id].unlocked

\* Lines 136-140.
isAchievementUnlocked(store, defaults, readOk, id) ==
    LET loaded == loadAchievements(store, readOk)
    IN  [ threw |-> loaded.threw,
          value |-> ~loaded.threw /\ UnlockedField(loaded.achievements, defaults, id) ]

\* Lines 126-133: setItem replaces the item or throws and leaves it.
saveAchievements(store, achievements, defaults, writeOk) ==
    IF writeOk
    THEN [ threw |-> FALSE,
           store |-> [ kind |-> "list", ids |-> AllIds,
                       unlocked |-> { id \in AllIds :
                                        UnlockedField(achievements, defaults, id) } ] ]
    ELSE [ threw |-> FALSE, store |-> store ]

\* The conditions with reach_10percent asking for a score below the next
\* threshold as well.
UnlockConditionBanded(id, state) ==
    CASE id = "first_run"          -> TRUE
      [] id = "reach_10percent"    -> state.score >= Pts(10000) /\ state.score < Pts(25000)
      [] id = "reach_25percent"    -> state.score >= Pts(25000)
      [] id = "reach_50percent"    -> state.score >= Pts(50000)
      [] id = "reach_75percent"    -> state.score >= Pts(75000)
      [] id = "reach_100percent"   -> state.score >= Pts(100000)
      [] id = "collect_key"        -> state.collectedSafetyKeys > 0
      [] id = "collect_backdoor"   -> state.collectedBackdoors > 0
      [] id = "play_3_times"       -> state.gamesPlayed >= 3
      [] id = "play_10_times"      -> state.gamesPlayed >= 10
      [] id = "defeat_first_core"  -> state.bossDefeatsCount > 0
      [] id = "defeat_level2_core" -> state.highestBossLevelDefeated >= 2
      [] id = "defeat_level3_core" -> state.highestBossLevelDefeated >= 3

\* The second operand of the && of lines 162-277; first_run has none.
\* A field that the Game State does not carry compares as 0 does.
UnlockCondition(id, state) ==
    CASE id = "first_run"          -> TRUE
      [] id = "reach_10percent"    -> state.score >= Pts(10000)
      [] id = "reach_25percent"    -> state.score >= Pts(25000)
      [] id = "reach_50percent"    -> state.score >= Pts(50000)
      [] id = "reach_75percent"    -> state.score >= Pts(75000)
      [] id = "reach_100percent"   -> state.score >= Pts(100000)
      [] id = "collect_key"        -> state.collectedSafetyKeys > 0
      [] id = "collect_backdoor"   -> state.collectedBackdoors > 0
      [] id = "play_3_times"       -> state.gamesPlayed >= 3
      [] id = "play_10_times"      -> state.gamesPlayed >= 10
      [] id = "defeat_first_core"  -> state.bossDefeatsCount > 0
      [] id = "defeat_level2_core" -> state.highestBossLevelDefeated >= 2
      [] id = "defeat_level3_core" -> state.highestBossLevelDefeated >= 3

\* One of the thirteen blocks of lines 149-284: the write of line 152 goes
\* to the default object when the loaded element is that object.
UnlockBlock(run, id, state, store, readOk) ==
    LET already == isAchievementUnlocked(store, run.defaults, readOk, id)
    IN  IF already.threw THEN [ run EXCEPT !.threw = TRUE ]
        ELSE IF ~already.value /\ UnlockCondition(id, state)
        THEN IF run.achievements[id].shared
             THEN [ run EXCEPT !.defaults[id] = TRUE, !.updated = TRUE ]
             ELSE [ run EXCEPT !.achievements[id].unlocked = TRUE, !.updated = TRUE ]
        ELSE run

RECURSIVE UnlockBlocks(_, _, _, _, _)
UnlockBlocks(run, i, state, store, readOk) ==
    IF i > Len(AchievementIds) \/ run.threw THEN run
    ELSE UnlockBlocks(UnlockBlock(run, AchievementIds[i], state, store, readOk),
                      i + 1, state, store, readOk)

\* The save without the test of line 287.
SaveAlways(run) == TRUE

\* Line 287: if (updated).
SaveIfUpdated(run) == run.updated

\* Lines 143-290.  state carries the answer of getDailyGameStats (line 232)
\* as gamesPlayed; wrote says whether saveAchievements called setItem.
updateAchievements(state, store, defaults, readOk, writeOk) ==
    LET loaded == loadAchievements(store, readOk)
        run == UnlockBlocks([ achievements |-> loaded.achievements, defaults |-> defaults,
                              updated |-> FALSE, threw |-> loaded.threw ],
                            1, state, store, readOk)
        saving == SaveIfUpdated(run) /\ ~run.threw
        saved == IF saving
                 THEN saveAchievements(store, run.achievements, run.defaults, writeOk)
                 ELSE [ threw |-> FALSE, store |-> store ]
    IN  [ storage |-> saved.store,
          ACHIEVEMENTS |-> run.defaults,
          aborted |-> run.threw \/ saved.threw,
          wrote |-> saving ]

\* Game states at the calls: nothing reached, ten short plays, one hundredth
\* below the first threshold, and each threshold of score, plays and defeats
\* reached.
AchievementStates ==
    { NoState,
      [ NoState EXCEPT !.gamesPlayed = 10 ],
      [ NoState EXCEPT !.score = Pts(10000) - 1, !.gamesPlayed = 2 ],
      [ NoState EXCEPT !.score = Pts(10000), !.collectedSafetyKeys = 1 ],
      [ NoState EXCEPT !.score = Pts(25000), !.collectedBackdoors = 1, !.gamesPlayed = 3 ],
      [ NoState EXCEPT !.score = Pts(50000), !.bossDefeatsCount = 1,
                       !.highestBossLevelDefeated = 1, !.gamesPlayed = 9 ],
      [ NoState EXCEPT !.score = Pts(75000), !.bossDefeatsCount = 2,
                       !.highestBossLevelDefeated = 2 ],
      [ NoState EXCEPT !.score = Pts(100000), !.bossDefeatsCount = 3,
                       !.highestBossLevelDefeated = 3, !.gamesPlayed = 10 ] }

\* What the store holds when the page is opened: nothing, broken text, the
\* list of an earlier version with fewer achievements, a full list.
StoredItems ==
    { NoItem,
      [ kind |-> "corrupt", ids |-> {}, unlocked |-> {} ],
      [ kind |-> "list", ids |-> { "first_run", "reach_10percent" },
        unlocked |-> { "first_run" } ],
      [ kind |-> "list", ids |-> AllIds, unlocked |-> { "first_run", "collect_key" } ] }

MaxCalls == 2

InitAchievements ==
    /\ canvas \in CanvasSizes
    /\ EncounterIdle
    /\ input = NoInput
    /\ rotation = NoRotation
    /\ leaderboard = NoLeaderboard
    /\ gameState = Null
    /\ storage \in StoredItems
    /\ ACHIEVEMENTS = AllLocked
    /\ lastCall = NoCall
    /\ LobbyIdle

\* One call of updateAchievements, with localStorage answering getItem and
\* setItem or throwing as answers allows.
UpdateAchievementsWith(answers) ==
    /\ lastCall.calls < MaxCalls
    /\ \E state \in AchievementStates, readOk \in answers, writeOk \in answers :
       \E r \in { updateAchievements(state, storage, ACHIEVEMENTS, readOk, writeOk) } :
          /\ storage' = r.storage
          /\ ACHIEVEMENTS' = r.ACHIEVEMENTS
          /\ lastCall' = [ calls |-> lastCall.calls + 1, state |-> state,
                           readOk |-> readOk, writeOk |-> writeOk,
                           aborted |-> r.aborted, wrote |-> r.wrote ]
    /\ UNCHANGED <<leaderboard, rotation, canvas, input, gameState, lobby>>
    /\ UNCHANGED encounter

UpdateAchievementsCall == UpdateAchievementsWith(BOOLEAN)

\* The page is loaded again: the module builds the array ACHIEVEMENTS anew.
Reload ==
    /\ ACHIEVEMENTS # AllLocked
    /\ ACHIEVEMENTS' = AllLocked
    /\ UNCHANGED <<leaderboard, rotation, canvas, input, gameState, storage, lastCall, lobby>>
    /\ UNCHANGED encounter

NextAchievements == UpdateAchievementsCall \/ Reload

SpecAchievements == InitAchievements /\ [][NextAchievements]_vars

\* A step that is a call of updateAchievements.
AchievementsStep == lastCall'.calls = lastCall.calls + 1

\* The achievement is in the stored item, as unlocked.
StoredUnlocked(store, id) == store.kind = "list" /\ id \in store.unlocked

\* C18: with working storage, after updateAchievements(state) each
\* achievement is stored as unlocked exactly when it was stored as unlocked
\* before the call or its condition holds for the call (first_run always,
\* the others by their thresholds of score, keys, backdoors, plays of the
\* day and boss defeats).
UnlocksStored ==
    [][ (AchievementsStep /\ lastCall'.readOk /\ lastCall'.writeOk)
        => \A id \in AllIds :
              StoredUnlocked(storage', id)
                <=> (StoredUnlocked(storage, id) \/ UnlockCondition(id, lastCall'.state)) ]_vars

\* C19: a failing achievement store never aborts the caller.  When reading,
\* parsing or writing the stored achievements throws, loadAchievements,
\* isAchievementUnlocked and updateAchievements with its save step complete
\* without passing the exception on, and a failed write leaves the stored
\* achievements as they were.
StoreFailuresContained ==
    [][ AchievementsStep
        => /\ ~lastCall'.aborted
           /\ (~lastCall'.writeOk => storage' = storage)
           /\ \A readOk \in BOOLEAN :
                 /\ ~loadAchievements(storage', readOk).threw
                 /\ \A id \in AllIds :
                       ~isAchievementUnlocked(storage', ACHIEVEMENTS', readOk, id).threw ]_vars

\* A call over a store that holds broken text and answers neither getItem
\* nor setItem: first_run was unlocked on the default object, the save
\* failed, the item is as it was and the call returned.
CallOverBrokenStore ==
    /\ lastCall.calls >= 1
    /\ ~lastCall.readOk
    /\ ~lastCall.writeOk
    /\ ~lastCall.aborted
    /\ ACHIEVEMENTS["first_run"]
    /\ storage.kind = "corrupt"

-----------------------------------------------------------------------------
(* pages/Index.tsx: the start of a game (the component of lines 41-486) *)

\* JavaScript's Infinity, the attempts of the unlimited mode: above every
\* count, and left as it is by + and -.
Infinity == 1000000

Plus(n, k) == IF n = Infinity THEN Infinity ELSE n + k

Minus(n, k) == IF n = Infinity THEN Infinity ELSE n - k

\* useState(3) of lines 46-47.
InitialAttempts == 3

\* The states of the component that handleStartGame reads.
Ui ==
    [ gameActive |-> gameActive, attemptsLeft |-> attemptsLeft,
      dailyAttemptsLeft |-> dailyAttemptsLeft, hasUnlimitedMode |-> hasUnlimitedMode ]

\* Line 195 is reached.
CallsUseAttempt(ui) ==
    /\ ~ui.hasUnlimitedMode
    /\ ~(ui.attemptsLeft <= 0)
    /\ ~(ui.dailyAttemptsLeft <= 0)

\* The game started whatever useAttempt answers, without the test of line 196.
handleStartGameUnchecked(ui, result) ==
    IF ui.hasUnlimitedMode THEN [ ui EXCEPT !.gameActive = TRUE ]
    ELSE IF ui.attemptsLeft <= 0 THEN ui
    ELSE IF ui.dailyAttemptsLeft <= 0 THEN ui
    ELSE [ ui EXCEPT !.dailyAttemptsLeft = result.remainingAttempts,
                     !.attemptsLeft = Minus(@, 1),
                     !.gameActive = TRUE ]

\* Lines 167-207; result is the answer of useAttempt().
handleStartGame(ui, result) ==
    IF ui.hasUnlimitedMode THEN [ ui EXCEPT !.gameActive = TRUE ]
    ELSE IF ui.attemptsLeft <= 0 THEN ui
    ELSE IF ui.dailyAttemptsLeft <= 0 THEN ui
    ELSE IF result.success
         THEN [ ui EXCEPT !.dailyAttemptsLeft = result.remainingAttempts,
                          !.attemptsLeft = Minus(@, 1),
                          !.gameActive = TRUE ]
         ELSE ui

\* What getRemainingDailyAttempts may answer.
DailyAttempts == 0 .. InitialAttempts

\* What useAttempt may answer when it is called.
UseAttemptResults ==
    { [ success |-> TRUE, remainingAttempts |-> r ] : r \in 0 .. InitialAttempts - 1 }
        \cup { NoResult }

MaxStarts == 3

MaxAttempts == 4

\* Lines 64-79: the effect that runs when the page is mounted.
InitLobby ==
    /\ canvas \in CanvasSizes
    /\ EncounterIdle
    /\ input = NoInput
    /\ rotation = NoRotation
    /\ leaderboard = NoLeaderboard
    /\ gameState = Null
    /\ storage = NoItem
    /\ ACHIEVEMENTS = AllLocked
    /\ lastCall = NoCall
    /\ gameActive = FALSE
    /\ startCall = NoStart
    /\ \E unlimited \in BOOLEAN, dailyAttempts \in DailyAttempts :
          /\ hasUnlimitedMode = unlimited
          /\ attemptsLeft = IF unlimited THEN Infinity
                            ELSE Min(InitialAttempts, dailyAttempts)
          /\ dailyAttemptsLeft = IF unlimited THEN Infinity ELSE dailyAttempts

HandleStartGame ==
    /\ startCall.starts < MaxStarts
    /\ \E result \in IF CallsUseAttempt(Ui) THEN UseAttemptResults ELSE { NoResult } :
       \E ui \in { handleStartGame(Ui, result) } :
          /\ gameActive' = ui.gameActive
          /\ attemptsLeft' = ui.attemptsLeft
          /\ dailyAttemptsLeft' = ui.dailyAttemptsLeft
          /\ startCall' = [ starts |-> startCall.starts + 1,
                            called |-> CallsUseAttempt(Ui), result |-> result ]
    /\ UNCHANGED <<hasUnlimitedMode, leaderboard, rotation, canvas, input, gameState, storage, ACHIEVEMENTS, lastCall>>
    /\ UNCHANGED encounter

\* Lines 117-118 and 142-143: handleGameOver and handleGameWin, as far as
\* the states of the lobby go.
HandleGameEnd ==
    /\ gameActive
    /\ gameActive' = FALSE
    /\ UNCHANGED <<attemptsLeft, dailyAttemptsLeft, hasUnlimitedMode, startCall>>
    /\ UNCHANGED <<leaderboard, rotation, canvas, input, gameState, storage, ACHIEVEMENTS, lastCall>>
    /\ UNCHANGED encounter

\* Lines 233-238: the end of an advertisement gives one attempt.
AdReward ==
    /\ attemptsLeft < MaxAttempts
    /\ attemptsLeft' = Plus(attemptsLeft, 1)
    /\ UNCHANGED <<gameActive, dailyAttemptsLeft, hasUnlimitedMode, startCall>>
    /\ UNCHANGED <<leaderboard, rotation, canvas, input, gameState, storage, ACHIEVEMENTS, lastCall>>
    /\ UNCHANGED encounter

\* Lines 320-330 and 342-346: the unlimited mode is bought or activated.
Purchase ==
    /\ ~hasUnlimitedMode
    /\ hasUnlimitedMode' = TRUE
    /\ attemptsLeft' = Infinity
    /\ dailyAttemptsLeft' = Infinity
    /\ UNCHANGED <<gameActive, startCall>>
    /\ UNCHANGED <<leaderboard, rotation, canvas, input, gameState, storage, ACHIEVEMENTS, lastCall>>
    /\ UNCHANGED encounter

\* Lines 82-91: the check of every 30 seconds; hasUnlimitedAttempts()
\* answers false as long as the unlimited mode was not bought.  The callback
\* was created by the first render, so the dailyAttemptsLeft of line 87 is
\* the initial one.
DailyCheck ==
    /\ ~hasUnlimitedMode
    /\ \E newDailyAttempts \in DailyAttempts :
          /\ newDailyAttempts # dailyAttemptsLeft
          /\ dailyAttemptsLeft' = newDailyAttempts
          /\ attemptsLeft' = IF newDailyAttempts > InitialAttempts
                             THEN Plus(attemptsLeft, newDailyAttempts - InitialAttempts)
                             ELSE attemptsLeft
    /\ UNCHANGED <<gameActive, hasUnlimitedMode, startCall>>
    /\ UNCHANGED <<leaderboard, rotation, canvas, input, gameState, storage, ACHIEVEMENTS, lastCall>>
    /\ UNCHANGED encounter

NextLobby == HandleStartGame \/ HandleGameEnd \/ AdReward \/ Purchase \/ DailyCheck

SpecLobby == InitLobby /\ [][NextLobby]_vars

\* A step that is a call of handleStartGame.
StartStep == startCall'.starts = startCall.starts + 1

\* The attempt of the call was granted: attempts are left, of the session
\* and of the day, and useAttempt reported success.
AttemptGranted ==
    /\ attemptsLeft > 0
    /\ dailyAttemptsLeft > 0
    /\ startCall'.called
    /\ startCall'.result.success

\* C20: handleStartGame makes the game active only if the unlimited mode is
\* on, or attemptsLeft > 0 and dailyAttemptsLeft > 0 and useAttempt reports
\* success; in that case attemptsLeft decreases by exactly 1 and
\* dailyAttemptsLeft becomes the reported remaining value.  In every other
\* case gameActive, attemptsLeft and dailyAttemptsLeft are left unchanged.
StartNeedsAttempt ==
    [][ StartStep
        => /\ (gameActive' /\ ~gameActive) => (hasUnlimitedMode \/ AttemptGranted)
           /\ (~hasUnlimitedMode /\ AttemptGranted)
                => /\ gameActive'
                   /\ attemptsLeft' = attemptsLeft - 1
                   /\ dailyAttemptsLeft' = startCall'.result.remainingAttempts
           /\ (~hasUnlimitedMode /\ ~AttemptGranted)
                => UNCHANGED <<gameActive, attemptsLeft, dailyAttemptsLeft>> ]_vars

\* The last attempt of the session was used for a game while the day has
\* two more, and a start refused since: useAttempt was not called again.
LastAttemptUsed ==
    /\ gameActive
    /\ ~hasUnlimitedMode
    /\ attemptsLeft = 0
    /\ dailyAttemptsLeft = 2
    /\ startCall.starts = 2
    /\ ~startCall.called

-----------------------------------------------------------------------------
(* Outcomes of one call, line by line *)

\* The lines that a call destroyed.
DestroyedInCall == DestroyedIds(bossCore'[1]) \ DestroyedIds(Boss)

\* C21: a line becomes destroyed in a tick only if it was not destroyed, the
\* player touched it and it was vulnerable when it was checked; and for each
\* line the player touches exactly one outcome applies: the lethal signal is
\* raised for it or the line is destroyed, never both and never neither.
OneOutcomePerHit ==
    [][ UpdateStep
        => /\ DestroyedInCall \subseteq (TouchedInCall \cap VulnerableIds(bossCore'[1]))
           /\ \A id \in TouchedInCall :
                 (id \in tick'.lethal) # (id \in DestroyedInCall)
           /\ collision' = (tick'.lethal # {}) ]_vars

\* A call in which the player touched four lines of one place: two were
\* vulnerable and are destroyed, their twins were not and are lethal.
TwoDestroyedTwoLethal ==
    /\ bossCore # Null
    /\ input.calls = 1
    /\ collision
    /\ Cardinality(tick.lethal) = 2
    /\ Cardinality(DestroyedIds(Boss) \ tick.lethal) = 2
    /\ DestroyedIds(Boss) \cap tick.lethal = {}
    /\ DestroyedIds(Boss) \cup tick.lethal
         = TouchedAt(Boss, Boss.outerRotationAngle, Boss.innerRotationAngle, input.player)

\* C22: each tick takes deltaTime off vulnerableLinesTimer.  If the result is
\* <= 0 the timer is exactly 300 after the tick and one refresh round was
\* run, however far deltaTime overshoots: min(4, n) of the n lines that were
\* not destroyed are vulnerable and no other.  Otherwise the timer keeps the
\* result and no line's vulnerability flag changes.
TimerCountsDownOrRefreshes ==
    [][ UpdateStep
        => IF Boss.vulnerableLinesTimer - input'.deltaTime <= 0
           THEN /\ bossCore'[1].vulnerableLinesTimer = VulnerableInterval
                /\ tick'.refreshed
                /\ VulnerableIds(bossCore'[1]) \subseteq (LineIds(Boss) \ DestroyedIds(Boss))
                /\ Cardinality(VulnerableIds(bossCore'[1]))
                     = Min(MaxVulnerable, Cardinality(LineIds(Boss) \ DestroyedIds(Boss)))
           ELSE /\ bossCore'[1].vulnerableLinesTimer
                     = Boss.vulnerableLinesTimer - input'.deltaTime
                /\ ~tick'.refreshed
                /\ VulnerableIds(bossCore'[1]) = VulnerableIds(Boss) ]_vars

\* The first call on a Boss Core as spawned, with deltaTime 300: the timer
\* went from 0 to -300, one round marked four lines and the timer is 300.
RefreshAfterOvershoot ==
    /\ bossCore # Null
    /\ ticks = 1
    /\ input.deltaTime = 300
    /\ tick.refreshed
    /\ Boss.vulnerableLinesTimer = VulnerableInterval
    /\ Cardinality(VulnerableIds(Boss)) = MaxVulnerable

-----------------------------------------------------------------------------
(* Lines 161-169 in the arithmetic of the code: IEEE 754 doubles *)

\* A non-negative number is kept exactly, in units of 2^-64, as a numeral
\* of base 2^15: the sequence of its digits, lowest digit first, without
\* leading zeros; << >> is 0.  Every double that occurs below is a whole
\* number of these units.
FractionBits == 64

\* Binary digits in one digit of a numeral.
DigitBits == 15

Base == 2 ^ DigitBits

\* A double has 53 significant binary digits.
SignificantBits == 53

Max(a, b) == IF a >= b THEN a ELSE b

Digit(a, i) == IF i <= Len(a) THEN a[i] ELSE 0

RECURSIVE Trim(_)
Trim(a) == IF a = << >> \/ a[Len(a)] # 0 THEN a ELSE Trim(SubSeq(a, 1, Len(a) - 1))

\* The carry into digit i of a + b.
RECURSIVE CarryInto(_, _, _)
CarryInto(a, b, i) ==
    IF i = 1 THEN 0
    ELSE (Digit(a, i - 1) + Digit(b, i - 1) + CarryInto(a, b, i - 1)) \div Base

\* The exact sum.
Add(a, b) ==
    Trim([ i \in 1 .. Max(Len(a), Len(b)) + 1 |->
             (Digit(a, i) + Digit(b, i) + CarryInto(a, b, i)) % Base ])

\* The borrow from digit i of a - b.
RECURSIVE BorrowFrom(_, _, _)
BorrowFrom(a, b, i) ==
    IF i = 1 THEN 0
    ELSE IF Digit(a, i - 1) - Digit(b, i - 1) - BorrowFrom(a, b, i - 1) < 0 THEN 1 ELSE 0

\* The exact difference a - b, for a >= b.
Sub(a, b) ==
    Trim([ i \in 1 .. Len(a) |->
             (Digit(a, i) - Digit(b, i) - BorrowFrom(a, b, i) + Base) % Base ])

RECURSIVE LessFrom(_, _, _)
LessFrom(a, b, i) ==
    IF i = 0 THEN FALSE
    ELSE IF a[i] # b[i] THEN a[i] < b[i]
    ELSE LessFrom(a, b, i - 1)

\* a < b.
Less(a, b) ==
    IF Len(a) # Len(b) THEN Len(a) < Len(b) ELSE LessFrom(a, b, Len(a))

\* The carry into digit i of a * k, for a natural number k < 2^15.
RECURSIVE TimesCarry(_, _, _)
TimesCarry(a, k, i) ==
    IF i = 1 THEN 0
    ELSE (Digit(a, i - 1) * k + TimesCarry(a, k, i - 1)) \div Base

\* The exact product of a and the natural number k < 2^15.
Times(a, k) ==
    Trim([ i \in 1 .. Len(a) + 1 |-> (Digit(a, i) * k + TimesCarry(a, k, i)) % Base ])

\* 2^n, in units of 2^-64 when n counts from the lowest binary digit.
PowerOfTwo(n) == [ i \in 1 .. (n \div DigitBits) |-> 0 ] \o << 2 ^ (n % DigitBits) >>

\* The natural number k < 2^15.
Whole(k) == Times(PowerOfTwo(FractionBits), k)

RECURSIVE BitLength(_)
BitLength(n) == IF n = 0 THEN 0 ELSE 1 + BitLength(n \div 2)

\* The number of binary digits of a.
Bits(a) == IF a = << >> THEN 0 ELSE DigitBits * (Len(a) - 1) + BitLength(a[Len(a)])

\* Binary digit n of a, the lowest being digit 1.
Bit(a, n) == (Digit(a, ((n - 1) \div DigitBits) + 1) \div (2 ^ ((n - 1) % DigitBits))) % 2

\* a without its d lowest binary digits, which are put to 0.
ClearLow(a, d) ==
    [ i \in 1 .. Len(a) |->
        IF i * DigitBits <= d THEN 0
        ELSE IF (i - 1) * DigitBits >= d THEN a[i]
        ELSE a[i] - (a[i] % (2 ^ (d - (i - 1) * DigitBits))) ]

\* Rounding to a double, to nearest with ties to even: what every +, * and
\* / of the code does to its exact result.
RoundToDouble(a) ==
    IF Bits(a) <= SignificantBits THEN a
    ELSE LET d == Bits(a) - SignificantBits
             up == /\ Bit(a, d) = 1
                   /\ \/ \E n \in 1 .. d - 1 : Bit(a, n) = 1
                      \/ Bit(a, d + 1) = 1
         IN  IF up THEN Add(ClearLow(a, d), PowerOfTwo(d)) ELSE Trim(ClearLow(a, d))

\* Long division by a natural number k < 2^15, from the highest digit.
RECURSIVE RemainderAt(_, _, _)
RemainderAt(a, k, i) ==
    IF i > Len(a) THEN 0
    ELSE (RemainderAt(a, k, i + 1) * Base + a[i]) % k

\* The double a / k: the quotient in units of 2^-64, with a lowest binary
\* digit that says whether digits were lost, then rounded.  The quotients
\* of line 161 are above 1/4, so the rounded digit is far above the lowest.
Quotient(a, k) ==
    LET q == Trim([ i \in 1 .. Len(a) |->
                      (RemainderAt(a, k, i + 1) * Base + a[i]) \div k ])
    IN  RoundToDouble(IF RemainderAt(a, k, 1) = 0 \/ q = << >> THEN q
                      ELSE [ q EXCEPT ![1] = IF @ % 2 = 0 THEN @ + 1 ELSE @ ])

\* The double a * k for a natural number k.
Product(a, k) == RoundToDouble(Times(a, k))

\* The double a + b.
Sum(a, b) == RoundToDouble(Add(a, b))

\* a % 360 on the magnitude of a: the remainder of doubles is exact.
RECURSIVE Remainder360(_)
Remainder360(a) ==
    IF Less(a, Whole(360)) THEN a ELSE Remainder360(Sub(a, Whole(360)))

\* Line 161 in doubles: (360 / seconds) / 60.
outerRotationSpeedPerSecond(level) == Quotient(Whole(360), RotationSeconds(level))

outerRotationSpeedDouble(level) ==
    Quotient(Quotient(Whole(360), RotationSeconds(level)), 60)

\* Line 162 in doubles: the magnitude of -1.5 * outerRotationSpeed.  The
\* product by 3/2 is exact before it is rounded.
innerRotationSpeedDouble(level) == Quotient(Times(outerRotationSpeedDouble(level), 3), 2)

\* Lines 164-169 on the doubles.  The outer angle never leaves 0 .. 360; the
\* inner angle starts at 0 and only has negative amounts added, so it is
\* kept as its magnitude: rounding and % are symmetric in the sign.
RotateDoubles(r, deltaTime) ==
    LET outerAdvance == Product(outerRotationSpeedDouble(r.level), deltaTime)
        innerAdvance == Product(innerRotationSpeedDouble(r.level), deltaTime)
    IN  [ level              |-> r.level,
          outerRotationAngle |-> Remainder360(Sum(r.outerRotationAngle, outerAdvance)),
          innerRotationAngle |-> Remainder360(Sum(r.innerRotationAngle, innerAdvance)),
          outerAdvance       |-> outerAdvance,
          innerAdvance       |-> innerAdvance,
          deltaTime          |-> deltaTime,
          elapsed            |-> r.elapsed + deltaTime,
          ticks              |-> r.ticks + 1 ]

\* The time units of one full turn at 60 per second.
RotationPeriod(level) == RotationSeconds(level) * 60

MaxRotationTicks == 3

\* The deltaTimes of a tick that starts after `elapsed` time units: short
\* ticks, a half and a third of the period, and the rest of the period.
RotationDeltaTimes(level, elapsed) ==
    { dt \in { 1, 2, 4, 7, RotationPeriod(level) \div 2, RotationPeriod(level) \div 3,
               RotationPeriod(level) - elapsed } :
        dt > 0 /\ elapsed + dt <= RotationPeriod(level) }

\* A boss of each level as initBossCore leaves it: both angles 0.
InitRotation ==
    /\ rotation \in { [ level |-> l, outerRotationAngle |-> << >>,
                        innerRotationAngle |-> << >>, outerAdvance |-> << >>,
                        innerAdvance |-> << >>, deltaTime |-> 0, elapsed |-> 0,
                        ticks |-> 0 ] : l \in 1 .. 3 }
    /\ canvas = <<0, 0>>
    /\ EncounterIdle
    /\ input = NoInput
    /\ leaderboard = NoLeaderboard
    /\ gameState = Null
    /\ storage = NoItem
    /\ ACHIEVEMENTS = AllLocked
    /\ lastCall = NoCall
    /\ LobbyIdle

Rotate ==
    /\ rotation.ticks < MaxRotationTicks
    /\ \E dt \in RotationDeltaTimes(rotation.level, rotation.elapsed) :
          \E r \in { RotateDoubles(rotation, dt) } : rotation' = r
    /\ UNCHANGED <<leaderboard, canvas, input, gameState, storage, ACHIEVEMENTS, lastCall, lobby>>
    /\ UNCHANGED encounter

NextRotation == Rotate

SpecRotation == InitRotation /\ [][NextRotation]_vars

\* |a - b|.
Distance(a, b) == IF Less(a, b) THEN Sub(b, a) ELSE Sub(a, b)

\* a <= b.
AtMost(a, b) == ~Less(b, a)

\* 2^-43 degrees: the most that the two roundings of one tick (the product
\* and the sum, both below 1024) can move an angle.
RoundingStep == PowerOfTwo(FractionBits - 43)

\* 2^-40 degrees.
RatioSlack == PowerOfTwo(FractionBits - 40)

\* The seconds per turn that the claim names for levels 1, 2, 3.
ClaimedSeconds == <<15, 12, 10>>

\* (360 / (T * 60)) * deltaTime, evaluated in doubles.
ClaimedAdvance(level, deltaTime) ==
    Product(Quotient(Whole(360), ClaimedSeconds[level] * 60), deltaTime)

\* How far the outer angle is from a whole number of turns.
OffWholeTurn(angle) == IF Less(angle, Whole(180)) THEN angle ELSE Sub(Whole(360), angle)

FullPeriodDone ==
    rotation.ticks > 0 /\ rotation.elapsed = ClaimedSeconds[rotation.level] * 60

\* C23 as stated: each tick advances the outer angle by
\* (360 / (T * 60)) * deltaTime with T = 15, 12, 10, the inner angle changes by
\* exactly -1.5 times that advance, and after any split of one period into
\* ticks the outer angle is exactly back at its starting angle 0.
ExactFullTurn ==
    rotation.ticks > 0
    => /\ rotation.outerAdvance = ClaimedAdvance(rotation.level, rotation.deltaTime)
       /\ Times(rotation.innerAdvance, 2) = Times(rotation.outerAdvance, 3)
       /\ FullPeriodDone => rotation.outerRotationAngle = << >>

\* C23, amended: each tick advances the outer angle by the double
\* (360 / (T * 60)) * deltaTime with T = 15, 12, 10, the inner angle changes
\* in the opposite direction by 1.5 times that advance to within 2^-40
\* degrees, and after a split of one period into n ticks the outer angle is
\* within n * 2^-43 degrees of a whole turn from its starting angle.
FullTurnWithinRounding ==
    rotation.ticks > 0
    => /\ rotation.outerAdvance = ClaimedAdvance(rotation.level, rotation.deltaTime)
       /\ AtMost(Distance(Times(rotation.innerAdvance, 2), Times(rotation.outerAdvance, 3)),
                 RatioSlack)
       /\ FullPeriodDone
          => AtMost(OffWholeTurn(rotation.outerRotationAngle),
                    Times(RoundingStep, rotation.ticks))

\* A level 1 boss after the ticks 2 and 898: the outer angle is 2^-44, not 0.
TurnEndsOffStart ==
    /\ FullPeriodDone
    /\ rotation.level = 1
    /\ rotation.ticks = 2
    /\ rotation.deltaTime = 898
    /\ rotation.outerRotationAngle = PowerOfTwo(FractionBits - 44)

-----------------------------------------------------------------------------
(* The inner ring behind an intact outer ring *)

\* Calls in which the random sort puts inner lines first, so that the
\* refresh round makes inner lines vulnerable while outer lines are intact.
InnerFirstTick == CallTickWith({ InnerFirstOrder })

NextInnerFirst == InnerFirstTick

SpecInnerFirst == InitCalls /\ [][NextInnerFirst]_vars

OuterIds(b) == { b.outerLines[i].id : i \in DOMAIN b.outerLines }

InnerIds(b) == { b.innerLines[i].id : i \in DOMAIN b.innerLines }

-----------------------------------------------------------------------------
(* The cooldown and the next spawn *)

\* The Boss Core right after its defeat: the memory card collected in a
\* call without elapsed time, cooldownTimer = 180.
DefeatedBoss(cv) ==
    CHOOSE b \in { updateBossCore(e, 0, Centre, TwinOrder).updatedBoss :
                     e \in { ExposedBoss(cv) } } : TRUE

\* Scores at which the defeat happened: short of the next threshold, and
\* between two thresholds.
DefeatScores == { Pts(66000) - 100, Pts(99000) - 100, Pts(50000) }

\* The game at the tick of a defeat.
InitCooldown ==
    /\ canvas \in CanvasSizes
    /\ score \in DefeatScores
    /\ bossCore \in { << DefeatedBoss(canvas) >> }
    /\ bossDefeated = TRUE
    /\ collision = FALSE
    /\ tick = [ refreshed |-> FALSE, tested |-> {}, lethal |-> {}, cardChecked |-> TRUE ]
    /\ spawnDue = FALSE
    /\ spawns = 1
    /\ scoreTicks = 0
    /\ ticks = 0
    /\ AuxIdle

SpecCooldown == InitCooldown /\ [][Next]_vars

CoolingDown == bossCore # Null /\ ~Boss.active /\ Boss.cooldownTimer > 0

\* C25: while the defeated boss's cooldownTimer is greater than 0, no step
\* spawns a new boss, whatever the score does.
NoSpawnDuringCooldown ==
    [][ CoolingDown => spawns' = spawns /\ (bossCore' # Null /\ ~bossCore'[1].active) ]_vars

-----------------------------------------------------------------------------
(* initBossCore on any play field *)

\* Widths and heights of the play field, degenerate ones included; all are
\* multiples of 60, for which the divisions of lines 64-70 and 77 are exact.
SpawnWidths == { -600, -360, -60, 0, 60, 360, 600 }

SpawnHeights == { -600, -180, 0, 180, 600, 900 }

\* Scores initBossCore is called with: below, on and above the thresholds.
SpawnScores == { 0, Pts(33000), Pts(66000) - 1, Pts(66000), Pts(99000), Pts(200000) }

InitSpawn ==
    /\ canvas \in SpawnWidths \X SpawnHeights
    /\ score \in SpawnScores
    /\ bossCore = Null
    /\ bossDefeated = FALSE
    /\ collision = FALSE
    /\ tick = NoTick
    /\ spawnDue = FALSE
    /\ spawns = 0
    /\ scoreTicks = 0
    /\ ticks = 0
    /\ AuxIdle

\* One call initBossCore(score, canvasWidth, canvasHeight).
SpawnCall ==
    /\ bossCore = Null
    /\ bossCore' = << initBossCore(score, canvas[1], canvas[2]) >>
    /\ spawns' = spawns + 1
    /\ UNCHANGED <<score, canvas, bossDefeated, collision, tick, spawnDue, scoreTicks, ticks>>
    /\ UNCHANGED aux

NextSpawn == SpawnCall

SpecSpawn == InitSpawn /\ [][NextSpawn]_vars

\* What initBossCore returns is a complete Boss Core as spawned, but for
\* the sign of the square sizes.
CompleteBossCore(b) ==
    /\ b.active
    /\ b.level \in 1 .. 3
    /\ Len(b.outerLines) = 16
    /\ Len(b.innerLines) = 16
    /\ \A i \in DOMAIN Ring(b) : ~Ring(b)[i].destroyed /\ ~Ring(b)[i].isVulnerable
    /\ b.memoryCard.active
    /\ b.memoryCard.x = b.x /\ b.memoryCard.y = b.y
    /\ b.outerRotationAngle = 0 /\ b.innerRotationAngle = 0
    /\ b.vulnerableLinesTimer = 0
    /\ b.cooldownTimer = 0

\* C26: for any score and any width and height of the play field, zero and
\* negative ones included, initBossCore returns a complete Boss Core (active,
\* every line neither destroyed nor vulnerable, the memory card active at the
\* boss centre, both angles 0, both timers 0) whose square sizes are not
\* negative.
SpawnTotalAndClamped ==
    bossCore # Null
    => /\ CompleteBossCore(Boss)
       /\ Boss.outerSquareSize >= 0
       /\ Boss.innerSquareSize >= 0

-----------------------------------------------------------------------------
(* The stored geometry *)

\* The ids and the stored end points of a ring, line by line.
StoredLines(lines) == [ i \in DOMAIN lines |-> << lines[i].id, lines[i].points >> ]

\* What initBossCore fixes for the encounter.
Geometry(b) ==
    [ x |-> b.x, y |-> b.y, level |-> b.level,
      outerSquareSize |-> b.outerSquareSize, innerSquareSize |-> b.innerSquareSize,
      outerLines |-> StoredLines(b.outerLines), innerLines |-> StoredLines(b.innerLines) ]

\* C27: no call of updateBossCore changes the position, the level, the
\* square sizes, or the id or the stored end points of any line.
GeometryUnchanged ==
    [][ UpdateStep => Geometry(bossCore'[1]) = Geometry(Boss) ]_vars

\* After two calls that turned the rings and destroyed lines in both, the
\* Boss Core still has the geometry initBossCore gave it.
TurnedAndHitSameGeometry ==
    /\ bossCore # Null
    /\ input.calls = 2
    /\ ticks = 2
    /\ Boss.outerRotationAngle # 0
    /\ Boss.innerRotationAngle # 0
    /\ DestroyedIds(Boss) # {}
    /\ tick.tested # {}
    /\ Geometry(Boss) = Geometry(initBossCore(score, canvas[1], canvas[2]))

-----------------------------------------------------------------------------
(* achievementsUtils.ts: the defaults, and what a call writes *)

\* What loadAchievements reports as unlocked, with a store that answers
\* getItem (readOk) or throws.
ReportedUnlocked(store, defaults, readOk) ==
    { id \in AllIds :
        UnlockedField(loadAchievements(store, readOk).achievements, defaults, id) }

\* C28: the default list is never altered by an unlock; and when the store
\* holds no item, or reading or parsing it fails, loadAchievements reports
\* every achievement as locked, whatever calls of updateAchievements came
\* before in the session.
DefaultsStayLocked ==
    /\ ACHIEVEMENTS = AllLocked
    /\ \A readOk \in BOOLEAN :
          (~readOk \/ storage.kind \in { "absent", "corrupt" })
          => ReportedUnlocked(storage, ACHIEVEMENTS, readOk) = {}

\* The achievements that go from locked to unlocked in a call with the
\* given state: those loadAchievements reports as locked before the call
\* and whose condition holds.
NewlyUnlocked(state, store, defaults, readOk) ==
    { id \in AllIds \ ReportedUnlocked(store, defaults, readOk) : UnlockCondition(id, state) }

\* C29: a call of updateAchievements calls setItem exactly when at least
\* one achievement goes from locked to unlocked in it; and with a store that
\* answers, a second call with the same state right after the call writes
\* nothing and leaves the stored item as it is.
WritesIffUnlock ==
    [][ AchievementsStep
        => /\ lastCall'.wrote
                <=> NewlyUnlocked(lastCall'.state, storage, ACHIEVEMENTS, lastCall'.readOk) # {}
           /\ ~lastCall'.wrote => storage' = storage
           /\ (lastCall'.readOk /\ lastCall'.writeOk)
              => \A again \in { updateAchievements(lastCall'.state, storage', ACHIEVEMENTS',
                                                   TRUE, TRUE) } :
                    ~again.wrote /\ again.storage = storage' ]_vars

\* The second of two calls with a state that unlocks three achievements,
\* over a store that answers: they are stored, the second call wrote nothing.
SecondCallWritesNothing ==
    /\ lastCall.calls = 2
    /\ lastCall.readOk /\ lastCall.writeOk
    /\ ~lastCall.wrote
    /\ lastCall.state.score = Pts(10000)
    /\ storage.kind = "list"
    /\ { "first_run", "reach_10percent", "collect_key" } \subseteq storage.unlocked
    /\ NewlyUnlocked(lastCall.state, storage, ACHIEVEMENTS, TRUE) = {}

-----------------------------------------------------------------------------
(* The Boss Core passed in, after the call *)

\* Line 154: { ...bossCore } copies the fields of the Boss Core, not what
\* they refer to.  The arrays outerLines and innerLines with their line
\* objects and the object memoryCard are the same in bossCore and updatedBoss,
\* so every write to a line or to the card through updatedBoss (lines 179,
\* 197, 201, 235, 255) shows in bossCore; the angles, the timers and active
\* are fields of the copy.  This is the Boss Core that was passed in, as the
\* caller finds it after the call that returned updatedBoss.
PassedInAfterCall(bossCore0, updatedBoss) ==
    [ bossCore0 EXCEPT !.outerLines = updatedBoss.outerLines,
                       !.innerLines = updatedBoss.innerLines,
                       !.memoryCard = updatedBoss.memoryCard ]

\* C30: after a call of updateBossCore the Boss Core that was passed in has
\* the vulnerable and destroyed flags of its lines and the active flag of
\* its memory card as before the call.
ArgumentUntouched ==
    [][ UpdateStep
        => \A old \in { PassedInAfterCall(Boss, bossCore'[1]) } :
              /\ VulnerableIds(old) = VulnerableIds(Boss)
              /\ DestroyedIds(old) = DestroyedIds(Boss)
              /\ old.memoryCard.active = Boss.memoryCard.active ]_vars

-----------------------------------------------------------------------------
(* The two squares of a ring *)

\* The line of the other square of the ring with the same side and half.
Twin(id) ==
    << CASE id[1] = "outer1" -> "outer2"
         [] id[1] = "outer2" -> "outer1"
         [] id[1] = "inner1" -> "inner2"
         [] id[1] = "inner2" -> "inner1",
       id[2], id[3] >>

\* C31: in every call a line and its twin of the other square of the ring
\* collide with the player alike; so a call that destroys a line whose twin
\* is neither destroyed nor vulnerable reports collision = true.
TwinsCollideAlike ==
    [][ UpdateStep
        => \A touched \in { TouchedAt(bossCore'[1], bossCore'[1].outerRotationAngle,
                                     bossCore'[1].innerRotationAngle, input'.player) } :
              /\ \A id \in LineIds(Boss) : id \in touched <=> Twin(id) \in touched
              /\ \A id \in DestroyedInCall :
                    (Twin(id) \notin DestroyedIds(Boss)
                        /\ Twin(id) \notin VulnerableIds(bossCore'[1]))
                    => collision' /\ Twin(id) \in tick'.lethal ]_vars

\* A call destroyed a line and found its twin lethal.
TwinLethalBesideDestroyed ==
    /\ bossCore # Null
    /\ input.calls >= 1
    /\ collision
    /\ \E id \in DestroyedIds(Boss) :
          Twin(id) \in tick.lethal /\ Twin(id) \notin DestroyedIds(Boss)

-----------------------------------------------------------------------------
(* After the defeat *)

\* C32: bossDefeated is true in at most one call on a Boss Core.  The call
\* that reports it is made on an active boss with an active memory card and
\* leaves both inactive; every call on an inactive boss reports no defeat,
\* leaves the boss and its memory card inactive and does not increase
\* cooldownTimer.
DefeatedOnce ==
    [][ UpdateStep
        => /\ bossDefeated'
              => /\ Boss.active /\ Boss.memoryCard.active
                 /\ ~bossCore'[1].active /\ ~bossCore'[1].memoryCard.active
           /\ ~Boss.active
              => /\ ~bossDefeated'
                 /\ ~bossCore'[1].active
                 /\ ~bossCore'[1].memoryCard.active
                 /\ bossCore'[1].cooldownTimer <= Boss.cooldownTimer ]_vars

\* Two calls or more after the defeat, the cooldown run out.
LongAfterDefeat ==
    /\ bossCore # Null
    /\ ticks >= Len(Script) + 3
    /\ ~Boss.active
    /\ ~Boss.memoryCard.active
    /\ ~bossDefeated
    /\ Boss.cooldownTimer <= 0

-----------------------------------------------------------------------------
(* The range of the vulnerability timer *)

\* C33: after every call of updateBossCore on a Boss Core that was spawned
\* by initBossCore, with deltaTime >= 0, vulnerableLinesTimer is above 0 and
\* at most 300.
TimerInRange ==
    (bossCore # Null /\ ticks >= 1)
    => /\ Boss.vulnerableLinesTimer > 0
       /\ Boss.vulnerableLinesTimer <= VulnerableInterval

\* Two calls of 60 frames on a boss as spawned: the first refreshed, the
\* second counted down to 240.
TimerCountedDown ==
    /\ bossCore # Null
    /\ ticks = 2
    /\ input.calls = 2
    /\ input.deltaTime = 60
    /\ ~tick.refreshed
    /\ Boss.vulnerableLinesTimer = VulnerableInterval - 60

-----------------------------------------------------------------------------
(* What stays stored *)

\* The achievements the stored item holds as unlocked.
StoredUnlockedIds(store) == { id \in AllIds : StoredUnlocked(store, id) }

\* C34: a call of updateAchievements over a store that answers getItem and
\* setItem leaves every achievement that was stored as unlocked stored as
\* unlocked.
UnlockedStaysStored ==
    [][ (AchievementsStep /\ lastCall'.readOk /\ lastCall'.writeOk)
        => StoredUnlockedIds(storage) \subseteq StoredUnlockedIds(storage') ]_vars

\* A call that wrote new achievements over a stored list and kept
\* collect_key, whose condition does not hold for the state of the call.
KeptWhileWriting ==
    /\ lastCall.calls >= 1
    /\ lastCall.readOk /\ lastCall.writeOk
    /\ lastCall.wrote
    /\ lastCall.state.collectedSafetyKeys = 0
    /\ { "first_run", "collect_key", "collect_backdoor" } \subseteq StoredUnlockedIds(storage)

-----------------------------------------------------------------------------
(* The stored achievements of a player who started with an empty store *)

InitFromEmpty ==
    /\ canvas \in CanvasSizes
    /\ EncounterIdle
    /\ input = NoInput
    /\ rotation = NoRotation
    /\ leaderboard = NoLeaderboard
    /\ gameState = Null
    /\ storage = NoItem
    /\ ACHIEVEMENTS = AllLocked
    /\ lastCall = NoCall
    /\ LobbyIdle

\* A call over a store that answers.
UpdateOverWorkingStore == UpdateAchievementsWith({ TRUE })

NextFromEmpty == UpdateOverWorkingStore \/ Reload

SpecFromEmpty == InitFromEmpty /\ [][NextFromEmpty]_vars

\* The percentages of the score, lowest first.
ReachIds ==
    << "reach_10percent", "reach_25percent", "reach_50percent", "reach_75percent",
       "reach_100percent" >>

\* C35: from an empty store that answers, after any calls of
\* updateAchievements the stored achievements are closed downwards: a
\* percentage unlocked has every lower percentage unlocked, play_10_times
\* has play_3_times, defeat_level3_core has defeat_level2_core, and any
\* achievement unlocked has first_run unlocked.
StoredClosedDownwards ==
    \A unlocked \in { StoredUnlockedIds(storage) } :
       /\ \A i, j \in DOMAIN ReachIds :
             (i < j /\ ReachIds[j] \in unlocked) => ReachIds[i] \in unlocked
       /\ "play_10_times" \in unlocked => "play_3_times" \in unlocked
       /\ "defeat_level3_core" \in unlocked => "defeat_level2_core" \in unlocked
       /\ unlocked # {} => "first_run" \in unlocked

\* After a call with a low score and a call with the highest: everything
\* of the three ladders is stored.
AllLaddersStored ==
    /\ lastCall.calls = 2
    /\ lastCall.wrote
    /\ { "first_run", "reach_10percent", "reach_100percent", "play_3_times",
         "play_10_times", "defeat_level2_core", "defeat_level3_core" }
          \subseteq StoredUnlockedIds(storage)

(***************************************************************************)
(* The leaderboard panel                                                   *)
(***************************************************************************)

\* What getScores may return when the panel is shown.
ScoreLists == { << >>, << 33000 >>, << 66000, 1200 >> }

\* The effect of Leaderboard, run when isVisible has changed: the cleanup
\* of the run before clears its timer; then the branch of the new value.
\* animationState is the one of the render in which isVisible changed.
LeaderboardEffect(l, isVisible, stored) ==
    IF isVisible
    THEN [ l EXCEPT !.isVisible = TRUE, !.scores = stored,
                    !.animationState = "entering", !.timer = "entered" ]
    ELSE IF l.animationState = "entered"
    THEN [ l EXCEPT !.isVisible = FALSE,
                    !.animationState = "exiting", !.timer = "exited" ]
    ELSE [ l EXCEPT !.isVisible = FALSE, !.timer = "none" ]

LeaderboardOnly ==
    UNCHANGED <<canvas, encounter, input, rotation, gameState, storage,
                ACHIEVEMENTS, lastCall, lobby>>

\* onShowLeaderboard of Index: setShowLeaderboard(true).
ShowLeaderboard ==
    /\ ~leaderboard.isVisible
    /\ \E stored \in ScoreLists :
          leaderboard' = LeaderboardEffect(leaderboard, TRUE, stored)
    /\ LeaderboardOnly

\* onClose, the button of the panel: setShowLeaderboard(false).
CloseLeaderboard ==
    /\ leaderboard.isVisible
    /\ leaderboard' = LeaderboardEffect(leaderboard, FALSE, << >>)
    /\ LeaderboardOnly

\* The timeout of 300 ms runs.
LeaderboardTimeout ==
    /\ leaderboard.timer # "none"
    /\ leaderboard' = [ leaderboard EXCEPT !.animationState = leaderboard.timer,
                                           !.timer = "none" ]
    /\ LeaderboardOnly

\* The page Index with its panel: the handlers of the page and those of
\* the panel, in any order.
NextLeaderboard ==
    \/ NextLobby
    \/ ShowLeaderboard
    \/ CloseLeaderboard
    \/ LeaderboardTimeout

\* A timeout that is set and not cleared runs.
SpecLeaderboard ==
    /\ InitLobby
    /\ [][NextLeaderboard]_vars
    /\ WF_vars(LeaderboardTimeout)

\* The state that follows each state in the cycle.
NextInCycle(state) ==
    CASE state = "exited" -> "entering"
      [] state = "entering" -> "entered"
      [] state = "entered" -> "exiting"
      [] state = "exiting" -> "exited"

\* The first half of C36: the animation state changes only to the state
\* that follows it in the cycle.
AnimationInCycle ==
    [][ leaderboard'.animationState # leaderboard.animationState
           => leaderboard'.animationState = NextInCycle(leaderboard.animationState) ]_vars

\* C36: the animation state moves only exited -> entering -> entered ->
\* exiting -> exited, and once isVisible is false the state reaches
\* "exited" (the panel stops rendering) unless the panel is shown again
\* first; so too when the panel is closed before the timeout of entering
\* has run. The formula is the second half, which no order of the handlers
\* can excuse.
HiddenLeadsToExited ==
    (~leaderboard.isVisible) ~>
        (leaderboard.animationState = "exited" \/ leaderboard.isVisible)

\* Closed before the timeout of entering ran: hidden, still "entering", and
\* no timeout left to move it.
ClosedWhileEntering ==
    /\ ~leaderboard.isVisible
    /\ leaderboard.animationState = "entering"
    /\ leaderboard.timer = "none"

=============================================================================
